---- MODULE Spec2Model ----
(***************************************************************************)
(* Job orchestration core of the workplace-monitoring backend:             *)
(*   orchestration/job_queue.py    JobQueue       (Redis sorted set + keys) *)
(*   orchestration/gpu_manager.py  GPUManager     (in-memory GPU registry)  *)
(*   orchestration/orchestrator.py JobOrchestrator                         *)
(*                                                                         *)
(* Conventions.                                                            *)
(*  - Python dicts are TLA+ functions over their keys; a missing key is a   *)
(*    key outside DOMAIN, dict.update(m) is  m @@ d.                        *)
(*  - Job ids are uuid4 strings.  They are modelled as the integers        *)
(*    1..MaxJobs, the integer order standing for the lexicographic order   *)
(*    of the strings; a fresh id is any id not issued yet, so the order of *)
(*    the ids is independent of the order of creation, as with uuid4.      *)
(*  - Time is the wall clock in milliseconds, counted from the start of    *)
(*    the model (the score order is invariant under this shift).           *)
(*  - GPU memory is counted in KiB: nvml reports whole bytes and the       *)
(*    threshold 2 GiB is a multiple of 1024, so                            *)
(*    bytes < 2*1024^3  <=>  floor(bytes / 1024) < 2*1024^2.               *)
(***************************************************************************)
EXTENDS Integers, FiniteSets, Sequences, TLC

\* ------------------------------------------------------------------ bounds
MaxJobs == 2
MaxGPUs == 1
MaxPriority == 1
\* the clock advances at most MaxShortTicks times by one millisecond and
\* at most MaxLongTicks times by PriorityWeight milliseconds
MaxShortTicks == 1
MaxLongTicks == 1
NumThreads == 2
\* idempotency keys that callers of create_job use
MaxKeys == 1
\* devices of the registry when the GPUManager is taken on its own
MaxSlots == 2

\* --------------------------------------------------------- program constants
\* job_queue.py: score = priority * 1000000 + int(timestamp * 1000)
PriorityWeight == 1000000
\* orchestrator.py: get_available_gpu(min_memory_gb=2.0)
MinMemoryGB == 2
\* gpu_manager.py: if gpu["utilization"] > 90: continue
MaxUtilization == 90
\* 1 GiB in KiB (gpu_manager.py: min_memory_gb * 1024 * 1024 * 1024 bytes)
KiBPerGiB == 1048576

\* Python's None, for optional job ids and gpu ids (both are >= 0 otherwise).
None == -1
JobIds == 1..MaxJobs
Priorities == 0..MaxPriority
\* create_job(..., priority: int = 0)
DefaultPriority == 0
\* The priorities the API passes to create_job: the default (upload) and
\* 1 (start-stream, "Streams have higher priority").
CallerPriorities == {DefaultPriority, 1}
Threads == 1..NumThreads
\* The wall clock advances by a millisecond or by PriorityWeight milliseconds.
ClockSteps == {1, PriorityWeight}

\* Values a successful nvml probe of one device can report (memory_free in
\* KiB, utilization in percent): a device at both thresholds of the
\* allocation policy, and a device with no free memory.
Readings ==
    { [memory_free |-> MinMemoryGB * KiBPerGiB, utilization |-> MaxUtilization],
      [memory_free |-> 0, utilization |-> 0] }
\* The outcome of one probe.  _update_gpu_info makes two nvml calls that
\* can raise into its except clause: nvmlDeviceGetMemoryInfo and then
\* nvmlDeviceGetUtilizationRates.  A field is None when its call raised or
\* was never reached: ProbeFailed is an exception at the first call, a
\* memory-only outcome an exception at the second.
ProbeFailed == [memory_free |-> None, utilization |-> None]
MemoryOnly(readings) ==
    { [memory_free |-> r.memory_free, utilization |-> None] : r \in readings }
OutcomesOf(readings) == readings \cup MemoryOnly(readings) \cup {ProbeFailed}
ProbeOutcomes == OutcomesOf(Readings)
\* The probe ended in the except clause of _update_gpu_info.
Raised(outcome) == outcome.utilization = None

\* result dictionaries passed to complete_job: None / {} (both falsy), and a
\* dictionary that carries a key named "status".
EmptyDict == [k \in {} |-> None]
Results == {EmptyDict, [status |-> "pending"]}

VARIABLES
    now,          \* wall clock, ms
    issued,       \* uuids issued so far by enqueue_job
    queue,        \* Redis sorted set "job_queue": {[id, priority, ts, score]}
    statusMap,    \* Redis keys job_status:<id>: job id -> status dict
    active_jobs,  \* JobOrchestrator.active_jobs: job id -> dict
    gpus,         \* GPUManager.gpus: gpu id -> dict
    pc,           \* per thread: position inside dequeue_job / assign_job_to_gpu
    local,        \* per thread: job_id argument, zrevrange result, gpu_id
    returned,     \* job id -> number of dequeue_job calls that returned it
    job_metadata, \* job id -> the idempotency_key in the job_metadata that
                  \*           create_job was called with (None: no such key)
    cancel_requested, \* ids of the jobs whose cancellation a caller has asked for
    members,      \* job id -> the "data" of the JSON member enqueue_job has
                  \*           ZADDed for the job, and the member's score
    video,        \* the file chunk_file works on, as cv2.VideoCapture shows it
    chunker,      \* VideoChunker.chunk_file: its position and its locals
    chunks,       \* the chunk_metadata chunk_file has yielded, in order
    upload,       \* one POST /ingestion/upload: the file, the handler's
                  \*           position, the job_ids collected so far
    tracker,      \* ObjectTracker: tracks, next_id, and what update returned
    clip          \* one ClipExtractor.extract_clip call and what it wrote

vars == <<now, issued, queue, statusMap, active_jobs, gpus, pc, local, returned,
          job_metadata, cancel_requested, members, video, chunker, chunks,
          upload, tracker, clip>>

\* The upload handler's, the tracker's and the clip extractor's variables.
stageVars == <<upload, tracker, clip>>

\* VideoChunker's variables; the orchestration calls never touch them.
chunkVars == <<video, chunker, chunks>>

\* The variables that the calls of the JobQueue, GPUManager and JobOrchestrator
\* sections below never write: each specification built from those calls
\* keeps them unchanged.
callArgs == <<job_metadata, cancel_requested, members>>

\* ----------------------------------------------------------------- helpers
\* dict.get(key): None when the key is absent.
Get(d, k) == IF k \in DOMAIN d THEN d[k] ELSE None

Max(S) == CHOOSE x \in S : \A y \in S : y <= x
Min(S) == CHOOSE x \in S : \A y \in S : x <= y


\* ------------------------------------------------- JobQueue (job_queue.py)
\* enqueue_job: score = priority * 1000000 + int(utcnow().timestamp() * 1000)
Score(priority, ts) == priority * PriorityWeight + ts

\* enqueue_job: the envelope {id, type, data, priority, status, created_at}
\* added to the sorted set under its score (ZADD).
Envelope(job_id, priority, ts) ==
    [id |-> job_id, priority |-> priority, ts |-> ts, score |-> Score(priority, ts)]

enqueue_job(q, job_id, priority, ts) == q \cup {Envelope(job_id, priority, ts)}

\* A ZRANGE job_queue 0 0 in place of the ZREVRANGE: the member of lowest
\* score (of lowest id among equal scores).
ZRangeBottom(q) ==
    { e \in q : \A f \in q :
         \/ e.score < f.score
         \/ (f.score = e.score /\ e.id <= f.id) }

\* ZREVRANGE job_queue 0 0: the member of highest score; members of equal
\* score are ordered lexicographically, and the JSON member starts with
\* {"id": "<uuid>", so among equal scores the highest id comes first.
\* The result is a list of at most one member, modelled as a set.
ZRevRangeTop(q) ==
    { e \in q : \A f \in q :
         \/ f.score < e.score
         \/ (f.score = e.score /\ f.id <= e.id) }

\* ZREM job_queue member (removing an absent member is a no-op).
ZRem(q, job_id) == { e \in q : e.id # job_id }

\* update_job_status: status_data = {job_id, status, updated_at};
\* if metadata: status_data.update(metadata); SETEX job_status:<id>.
StatusData(job_id, status, metadata) ==
    IF DOMAIN metadata # {}
    THEN metadata @@ [job_id |-> job_id, status |-> status]
    ELSE [job_id |-> job_id, status |-> status]

update_job_status(sm, job_id, status, metadata) ==
    (job_id :> StatusData(job_id, status, metadata)) @@ sm

\* ---------------------------------------------- GPUManager (gpu_manager.py)
\* _discover_gpus: the record of a device before its first probe.
NewGPU == [available |-> TRUE, memory_free |-> 0, utilization |-> 0]

\* _update_gpu_info: memory_free is written as soon as
\* nvmlDeviceGetMemoryInfo returns, utilization as soon as
\* nvmlDeviceGetUtilizationRates returns.  An nvml exception is logged and
\* leaves what was not yet written, the available flag included, as it
\* was: raised by the second call it leaves the new memory_free beside the
\* old utilization.
update_gpu_info(gpu, outcome) ==
    IF outcome.memory_free = None
    THEN gpu
    ELSE IF outcome.utilization = None
         THEN [gpu EXCEPT !.memory_free = outcome.memory_free]
         ELSE [gpu EXCEPT !.memory_free = outcome.memory_free,
                          !.utilization = outcome.utilization]

\* update_all_gpus: probes every device.
update_all_gpus(G, outcomes) ==
    [g \in DOMAIN G |-> update_gpu_info(G[g], outcomes[g])]

\* get_available_gpu, the loop body: the devices that are not skipped.
Eligible(G, min_memory_gb) ==
    { g \in DOMAIN G :
        /\ G[g].available
        /\ ~(G[g].memory_free < min_memory_gb * KiBPerGiB)
        /\ ~(G[g].utilization > MaxUtilization) }

\* get_available_gpu, after update_all_gpus: the first eligible device in
\* dict order (insertion order = ascending device index), else None.
get_available_gpu(G, min_memory_gb) ==
    LET eligible == Eligible(G, min_memory_gb) IN
    IF eligible = {} THEN None ELSE Min(eligible)

\* A mark_gpu_busy that leaves the flag as it is.
MarkBusyNoop(G, gpu_id) == G

mark_gpu_busy(G, gpu_id) ==
    IF gpu_id \in DOMAIN G THEN [G EXCEPT ![gpu_id].available = FALSE] ELSE G

mark_gpu_available(G, gpu_id) ==
    IF gpu_id \in DOMAIN G THEN [G EXCEPT ![gpu_id].available = TRUE] ELSE G

\* ------------------------------------- JobOrchestrator (orchestrator.py)
\* The entries of active_jobs are modelled by their keys job_id, status and
\* gpu_id; camera_id, the timestamps, result and error are written but never
\* read by the orchestrator.
\* A create_job that tracks the new job as already assigned.
NewJobEntryAssigned(job_id) == [job_id |-> job_id, status |-> "assigned"]

\* create_job: the active_jobs entry of a new job (no gpu_id key yet).
NewJobEntry(job_id) == [job_id |-> job_id, status |-> "pending"]

\* assign_job_to_gpu, lines 88-91: the entry of a tracked job is updated.
AssignEntry(A, job_id, gpu_id) ==
    IF job_id \in DOMAIN A
    THEN [A EXCEPT ![job_id] = [gpu_id |-> gpu_id, status |-> "assigned"] @@ A[job_id]]
    ELSE A

\* complete_job / fail_job: the GPU recorded in the entry of a tracked job
\* is marked available.
ReleaseGPU(G, A, job_id) ==
    IF job_id \in DOMAIN A /\ Get(A[job_id], "gpu_id") # None
    THEN mark_gpu_available(G, A[job_id].gpu_id)
    ELSE G

\* complete_job / fail_job that track a job they were not tracking.
FinishEntryAnyJob(A, job_id, status) ==
    IF job_id \in DOMAIN A
    THEN [A EXCEPT ![job_id] = [status |-> status] @@ A[job_id]]
    ELSE (job_id :> [job_id |-> job_id, status |-> status]) @@ A

\* complete_job / fail_job: job["status"] = ... for a tracked job.
FinishEntry(A, job_id, status) ==
    IF job_id \in DOMAIN A
    THEN [A EXCEPT ![job_id] = [status |-> status] @@ A[job_id]]
    ELSE A

IdleLocal ==
    [job_id |-> None, top |-> None, gpu_id |-> None,
     call |-> "none", dev |-> None, mem |-> None,
     queue_length |-> None, active_jobs |-> None, gpu_count |-> None,
     available_gpus |-> None]

\* No file is being chunked.
NoVideo == [opened |-> FALSE, fps |-> 0, total_frames |-> 0, unreadable |-> {}]
IdleChunker ==
    [at |-> "idle", chunk_duration |-> 0, chunk_index |-> 0, reads |-> 0,
     released |-> FALSE]

\* No upload is being handled, no tracker is in use, no clip is extracted.
NoUpload == [at |-> "idle"]
NoTracker == [at |-> "idle"]
NoClip == [at |-> "idle"]

\* -------------------------------------------------------------------- Init
\* GPUManager.__init__: without pynvml (or when nvmlInit fails) the registry
\* is empty; otherwise _discover_gpus adds devices 0..n-1 and probes each.
Init ==
    /\ now = 0
    /\ issued = {}
    /\ queue = {}
    /\ statusMap = [j \in {} |-> EmptyDict]
    /\ active_jobs = [j \in {} |-> EmptyDict]
    /\ \E n \in 0..MaxGPUs :
         \E outcomes \in [0..(n - 1) -> ProbeOutcomes] :
            gpus = update_all_gpus([g \in 0..(n - 1) |-> NewGPU], outcomes)
    /\ pc = [t \in Threads |-> "idle"]
    /\ local = [t \in Threads |-> IdleLocal]
    /\ returned = [j \in JobIds |-> 0]
    /\ job_metadata = [j \in {} |-> None]
    /\ cancel_requested = {}
    /\ members = [j \in {} |-> EmptyDict]
    /\ video = NoVideo
    /\ chunker = IdleChunker
    /\ chunks = <<>>
    /\ upload = NoUpload
    /\ tracker = NoTracker
    /\ clip = NoClip

\* ------------------------------------------------- calls, each as one step
\* An action's last parameter `ret` is the value the call returns; `outcomes`
\* are the results of the nvml probes the call makes.

\* The wall clock advances.
Tick(d) ==
    /\ d = 1 => now % PriorityWeight < MaxShortTicks
    /\ d = PriorityWeight => now \div PriorityWeight < MaxLongTicks
    /\ now' = now + d
    /\ UNCHANGED <<issued, queue, statusMap, active_jobs, gpus, pc, local, returned>>

\* JobQueue.enqueue_job, called directly; ret is the uuid it generates.
EnqueueJob(priority, ret) ==
    /\ ret \in JobIds \ issued
    /\ issued' = issued \cup {ret}
    /\ queue' = enqueue_job(queue, ret, priority, now)
    /\ UNCHANGED <<now, statusMap, active_jobs, gpus, pc, local, returned>>

\* JobQueue.dequeue_job; ret is the id of the job returned, or None.
DequeueJob(ret) ==
    LET result == ZRevRangeTop(queue) IN
    IF result = {}
    THEN /\ ret = None
         /\ UNCHANGED vars
    ELSE /\ ret \in {job.id : job \in result}
         /\ queue' = ZRem(queue, ret)
         /\ returned' = [returned EXCEPT ![ret] = @ + 1]
         /\ UNCHANGED <<now, issued, statusMap, active_jobs, gpus, pc, local>>

\* JobOrchestrator.create_job; ret is the job id enqueue_job generates.
CreateJob(priority, ret) ==
    /\ ret \in JobIds \ issued
    /\ issued' = issued \cup {ret}
    /\ queue' = enqueue_job(queue, ret, priority, now)
    /\ active_jobs' = (ret :> NewJobEntry(ret)) @@ active_jobs
    /\ UNCHANGED <<now, statusMap, gpus, pc, local, returned>>

\* assign_job_to_gpu, lines 78-82: the gpu id (or None) the call gets from
\* get_available_gpu(min_memory_gb=2.0), and returns, when its probes give
\* these outcomes.
AssignReturn(outcomes) ==
    get_available_gpu(update_all_gpus(gpus, outcomes), MinMemoryGB)

\* JobOrchestrator.assign_job_to_gpu; ret is the gpu id returned, or None.
AssignJobToGPU(job_id, outcomes, ret) ==
    /\ UNCHANGED <<now, issued, queue, pc, local, returned>>
    /\ ret = AssignReturn(outcomes)
    /\ LET probed == update_all_gpus(gpus, outcomes) IN
       IF ret = None
       THEN /\ gpus' = probed
            /\ UNCHANGED <<statusMap, active_jobs>>
       ELSE /\ gpus' = mark_gpu_busy(probed, ret)
            /\ active_jobs' = AssignEntry(active_jobs, job_id, ret)
            /\ statusMap' = update_job_status(statusMap, job_id, "assigned",
                                              [gpu_id |-> ret])

\* JobOrchestrator.complete_job
CompleteJob(job_id, result) ==
    /\ gpus' = ReleaseGPU(gpus, active_jobs, job_id)
    /\ active_jobs' = FinishEntry(active_jobs, job_id, "completed")
    /\ statusMap' = update_job_status(statusMap, job_id, "completed", result)
    /\ UNCHANGED <<now, issued, queue, pc, local, returned>>

\* JobOrchestrator.fail_job
FailJob(job_id) ==
    /\ gpus' = ReleaseGPU(gpus, active_jobs, job_id)
    /\ active_jobs' = FinishEntry(active_jobs, job_id, "failed")
    /\ statusMap' = update_job_status(statusMap, job_id, "failed", [error |-> "error"])
    /\ UNCHANGED <<now, issued, queue, pc, local, returned>>

\* GPUManager.get_gpu_info(gpu_id): None for an id that is not in the
\* registry, else the device is probed and a copy of its entry returned.
GetGPUInfo(gpu_id, outcome) ==
    /\ gpus' = IF gpu_id \in DOMAIN gpus
                THEN [gpus EXCEPT ![gpu_id] = update_gpu_info(@, outcome)]
                ELSE gpus
    /\ UNCHANGED <<now, issued, queue, statusMap, active_jobs, pc, local, returned>>

\* GPUManager.get_all_gpus(): update_all_gpus, then copies of the entries.
GetAllGPUs(outcomes) ==
    /\ gpus' = update_all_gpus(gpus, outcomes)
    /\ UNCHANGED <<now, issued, queue, statusMap, active_jobs, pc, local, returned>>

\* get_queue_stats: the dictionary returned when the second get_all_gpus
\* leaves the registry G.
queue_stats(Q, A, G) ==
    [queue_length |-> Cardinality(Q),
     active_jobs |-> Cardinality(DOMAIN A),
     gpu_count |-> Cardinality(DOMAIN G),
     available_gpus |-> Cardinality({g \in DOMAIN G : G[g].available})]

\* JobOrchestrator.get_queue_stats(): ZCARD, len(active_jobs), and two
\* get_all_gpus calls, the second probing the devices again; first and
\* second are the outcomes of the two rounds of probes.
GetQueueStats(first, second) ==
    /\ gpus' = update_all_gpus(update_all_gpus(gpus, first), second)
    /\ UNCHANGED <<now, issued, queue, statusMap, active_jobs, pc, local, returned>>

\* ------------------------- the same calls, one Redis / registry access per step
\* Several threads call create_job, dequeue_job, assign_job_to_gpu,
\* get_queue_stats, get_gpu_info and get_all_gpus on the same queue and the
\* same orchestrator; none of them takes a lock, so the threads interleave
\* between the accesses below: every Redis command, every nvml call with the
\* registry write that follows it, every read or write of active_jobs and
\* of the registry is a step of its own.

\* create_job, lines 51-55: enqueue_job (ZADD); from here on every
\* dequeue_job sees the job, which active_jobs does not hold yet.
CjEnqueue(t, priority, ret) ==
    /\ pc[t] = "idle"
    /\ ret \in JobIds \ issued
    /\ issued' = issued \cup {ret}
    /\ queue' = enqueue_job(queue, ret, priority, now)
    /\ local' = [local EXCEPT ![t].job_id = ret]
    /\ pc' = [pc EXCEPT ![t] = "cj_track"]
    /\ UNCHANGED <<now, statusMap, active_jobs, gpus, returned>>

\* create_job, lines 57-66: active_jobs[job_id] = the pending entry, which
\* replaces whatever the key held; return job_id.
CjTrack(t) ==
    /\ pc[t] = "cj_track"
    /\ active_jobs' = (local[t].job_id :> NewJobEntry(local[t].job_id)) @@ active_jobs
    /\ pc' = [pc EXCEPT ![t] = "idle"]
    /\ local' = [local EXCEPT ![t] = IdleLocal]
    /\ UNCHANGED <<now, issued, queue, statusMap, gpus, returned>>

\* dequeue_job, lines 82-88: ZREVRANGE job_queue 0 0; return None if empty.
DqRead(t) ==
    /\ pc[t] = "idle"
    /\ \E job \in ZRevRangeTop(queue) :
          /\ local' = [local EXCEPT ![t].top = job.id]
          /\ pc' = [pc EXCEPT ![t] = "dq_zrem"]
    /\ UNCHANGED <<now, issued, queue, statusMap, active_jobs, gpus, returned>>

\* dequeue_job, lines 90-95: ZREM job_queue job_str (its reply is not
\* looked at); return job.
DqRemove(t) ==
    /\ pc[t] = "dq_zrem"
    /\ queue' = ZRem(queue, local[t].top)
    /\ returned' = [returned EXCEPT ![local[t].top] = @ + 1]
    /\ pc' = [pc EXCEPT ![t] = "idle"]
    /\ local' = [local EXCEPT ![t] = IdleLocal]
    /\ UNCHANGED <<now, issued, statusMap, active_jobs, gpus>>

\* The first key of the registry, None when it is empty.
FirstDevice == IF DOMAIN gpus = {} THEN None ELSE 0

\* The device a loop over the registry visits after device d (None: the
\* loop is over); get_gpu_info visits one device only.
NextDevice(call, d) ==
    IF call = "get_gpu_info" \/ d + 1 \notin DOMAIN gpus THEN None ELSE d + 1

\* The loop over the registry that follows the refresh in `call`: the
\* selection loop of get_available_gpu, or the copying of the entries.
AfterRefresh(call) == IF call = "assign_job_to_gpu" THEN "sel_available" ELSE "copy"

\* A thread enters update_all_gpus on behalf of `call`: it stands before the
\* nvml calls of the first device, or, when there is no device, at the loop
\* that follows the refresh.
BeginRefresh(t, call, job_id) ==
    /\ local' = [local EXCEPT ![t].call = call, ![t].job_id = job_id,
                               ![t].dev = FirstDevice]
    /\ pc' = [pc EXCEPT ![t] = IF FirstDevice = None THEN AfterRefresh(call)
                                ELSE "probe_mem"]

\* The probe of device d is over: the thread goes to its next device, or
\* to the first device of the loop that follows the refresh (for
\* get_gpu_info, the device asked for).
EndProbe(t, d) ==
    LET call == local[t].call
        next == NextDevice(call, d)
    IN  /\ pc' = [pc EXCEPT ![t] = IF next = None THEN AfterRefresh(call)
                                    ELSE "probe_mem"]
        /\ local' = [local EXCEPT
                       ![t].mem = None,
                       ![t].dev = IF next # None THEN next
                                  ELSE IF call = "get_gpu_info" THEN d
                                  ELSE FirstDevice]

\* _update_gpu_info, lines 77-80: nvmlDeviceGetMemoryInfo, during which the
\* other threads run, and the write of what it reports; memory_free = None
\* is the call raising into the except clause, which ends this device's
\* probe.
ProbeMem(t, memory_free) ==
    /\ pc[t] = "probe_mem"
    /\ IF memory_free = None
       THEN /\ EndProbe(t, local[t].dev)
            /\ UNCHANGED gpus
       ELSE /\ gpus' = [gpus EXCEPT ![local[t].dev].memory_free = memory_free]
            /\ local' = [local EXCEPT ![t].mem = memory_free]
            /\ pc' = [pc EXCEPT ![t] = "probe_util"]
    /\ UNCHANGED <<now, issued, queue, statusMap, active_jobs, returned>>

\* _update_gpu_info, lines 83-84: nvmlDeviceGetUtilizationRates and the
\* write of what it reports (the device reports one of Readings over the two
\* calls); utilization = None is the call raising.
ProbeUtil(t, utilization) ==
    /\ pc[t] = "probe_util"
    /\ \/ utilization = None
       \/ [memory_free |-> local[t].mem, utilization |-> utilization] \in Readings
    /\ gpus' = IF utilization = None THEN gpus
               ELSE [gpus EXCEPT ![local[t].dev].utilization = utilization]
    /\ EndProbe(t, local[t].dev)
    /\ UNCHANGED <<now, issued, queue, statusMap, active_jobs, returned>>

\* assign_job_to_gpu, line 78: the call enters get_available_gpu, whose
\* first statement is update_all_gpus (gpu_manager.py 108).
AsGet(t, job_id) ==
    /\ pc[t] = "idle"
    /\ BeginRefresh(t, "assign_job_to_gpu", job_id)
    /\ UNCHANGED <<now, issued, queue, statusMap, active_jobs, gpus, returned>>

\* The selection loop skips device d: on to the next one.
SkipDevice(t, d) ==
    /\ local' = [local EXCEPT ![t].dev = NextDevice(local[t].call, d)]
    /\ pc' = [pc EXCEPT ![t] = "sel_available"]

\* get_available_gpu, lines 113-114: the flag of the device is read.
SelAvailable(t) ==
    /\ pc[t] = "sel_available"
    /\ local[t].dev # None
    /\ IF gpus[local[t].dev].available
       THEN /\ pc' = [pc EXCEPT ![t] = "sel_memory"]
            /\ UNCHANGED local
       ELSE SkipDevice(t, local[t].dev)
    /\ UNCHANGED <<now, issued, queue, statusMap, active_jobs, gpus, returned>>

\* get_available_gpu, lines 116-117: its memory_free is read.
SelMemory(t) ==
    /\ pc[t] = "sel_memory"
    /\ IF gpus[local[t].dev].memory_free >= MinMemoryGB * KiBPerGiB
       THEN /\ pc' = [pc EXCEPT ![t] = "sel_utilization"]
            /\ UNCHANGED local
       ELSE SkipDevice(t, local[t].dev)
    /\ UNCHANGED <<now, issued, queue, statusMap, active_jobs, gpus, returned>>

\* get_available_gpu, lines 120-123: its utilization is read; a device that
\* passes is returned to assign_job_to_gpu.
SelUtilization(t) ==
    /\ pc[t] = "sel_utilization"
    /\ IF gpus[local[t].dev].utilization > MaxUtilization
       THEN SkipDevice(t, local[t].dev)
       ELSE /\ local' = [local EXCEPT ![t].gpu_id = local[t].dev, ![t].dev = None]
            /\ pc' = [pc EXCEPT ![t] = "as_mark"]
    /\ UNCHANGED <<now, issued, queue, statusMap, active_jobs, gpus, returned>>

\* get_available_gpu, line 125, and assign_job_to_gpu, lines 80-82: the loop
\* has found no device; None is returned.
AsNone(t) ==
    /\ pc[t] = "sel_available"
    /\ local[t].dev = None
    /\ local' = [local EXCEPT ![t] = IdleLocal]
    /\ pc' = [pc EXCEPT ![t] = "idle"]
    /\ UNCHANGED <<now, issued, queue, statusMap, active_jobs, gpus, returned>>

\* assign_job_to_gpu, lines 84-85: mark_gpu_busy(gpu_id).
AsMark(t) ==
    /\ pc[t] = "as_mark"
    /\ gpus' = mark_gpu_busy(gpus, local[t].gpu_id)
    /\ pc' = [pc EXCEPT ![t] = "as_update"]
    /\ UNCHANGED <<now, issued, queue, statusMap, active_jobs, local, returned>>

\* assign_job_to_gpu, lines 88-89: for a tracked job the entry's gpu_id is
\* written; for an untracked one lines 89-91 are skipped.
AsUpdate(t) ==
    /\ pc[t] = "as_update"
    /\ LET j == local[t].job_id IN
       IF j \in DOMAIN active_jobs
       THEN /\ active_jobs' = [active_jobs EXCEPT
                                 ![j] = [gpu_id |-> local[t].gpu_id] @@ @]
            /\ pc' = [pc EXCEPT ![t] = "as_entry_status"]
       ELSE /\ UNCHANGED active_jobs
            /\ pc' = [pc EXCEPT ![t] = "as_status"]
    /\ UNCHANGED <<now, issued, queue, statusMap, gpus, local, returned>>

\* assign_job_to_gpu, lines 90-91: the entry's status is written.
AsEntryStatus(t) ==
    /\ pc[t] = "as_entry_status"
    /\ active_jobs' = [active_jobs EXCEPT
                         ![local[t].job_id] = [status |-> "assigned"] @@ @]
    /\ pc' = [pc EXCEPT ![t] = "as_status"]
    /\ UNCHANGED <<now, issued, queue, statusMap, gpus, local, returned>>

\* assign_job_to_gpu, lines 93-100: update_job_status (SETEX), return gpu_id.
AsStatus(t) ==
    /\ pc[t] = "as_status"
    /\ statusMap' = update_job_status(statusMap, local[t].job_id, "assigned",
                                      [gpu_id |-> local[t].gpu_id])
    /\ pc' = [pc EXCEPT ![t] = "idle"]
    /\ local' = [local EXCEPT ![t] = IdleLocal]
    /\ UNCHANGED <<now, issued, queue, active_jobs, gpus, returned>>

\* get_gpu_info, lines 142-145: None for an id the registry does not have,
\* else the call enters _update_gpu_info for that device.
GiCall(t, gpu_id) ==
    /\ pc[t] = "idle"
    /\ IF gpu_id \in DOMAIN gpus
       THEN /\ local' = [local EXCEPT ![t].call = "get_gpu_info", ![t].dev = gpu_id]
            /\ pc' = [pc EXCEPT ![t] = "probe_mem"]
       ELSE UNCHANGED <<pc, local>>
    /\ UNCHANGED <<now, issued, queue, statusMap, active_jobs, gpus, returned>>

\* get_all_gpus, line 155: the call enters update_all_gpus.
GaCall(t) ==
    /\ pc[t] = "idle"
    /\ BeginRefresh(t, "get_all_gpus", None)
    /\ UNCHANGED <<now, issued, queue, statusMap, active_jobs, gpus, returned>>

\* get_gpu_info, line 146, and get_all_gpus, line 156: the entry of one
\* device is copied.  The second get_all_gpus of get_queue_stats is asked
\* for its available copies, which are counted as they are taken.
GpuCopy(t) ==
    /\ pc[t] = "copy"
    /\ local[t].dev # None
    /\ local' = [local EXCEPT
                   ![t].dev = NextDevice(local[t].call, local[t].dev),
                   ![t].available_gpus =
                       IF local[t].call = "get_queue_stats_second"
                          /\ gpus[local[t].dev].available
                       THEN @ + 1 ELSE @]
    /\ UNCHANGED <<now, issued, queue, statusMap, active_jobs, gpus, pc, returned>>

\* get_gpu_info, line 146, and get_all_gpus, line 156: the copies are
\* returned.
GpuReturn(t) ==
    /\ pc[t] = "copy"
    /\ local[t].dev = None
    /\ local[t].call \in {"get_gpu_info", "get_all_gpus"}
    /\ local' = [local EXCEPT ![t] = IdleLocal]
    /\ pc' = [pc EXCEPT ![t] = "idle"]
    /\ UNCHANGED <<now, issued, queue, statusMap, active_jobs, gpus, returned>>

\* get_queue_stats, line 182: get_queue_length (ZCARD), a Redis round trip.
QsZcard(t) ==
    /\ pc[t] = "idle"
    /\ local' = [local EXCEPT ![t].queue_length = Cardinality(queue)]
    /\ pc' = [pc EXCEPT ![t] = "qs_len"]
    /\ UNCHANGED <<now, issued, queue, statusMap, active_jobs, gpus, returned>>

\* get_queue_stats, lines 183-184: len(self.active_jobs), and the call
\* enters the update_all_gpus of its first get_all_gpus.
QsLen(t) ==
    /\ pc[t] = "qs_len"
    /\ local' = [local EXCEPT
                   ![t].active_jobs = Cardinality(DOMAIN active_jobs),
                   ![t].call = "get_queue_stats_first",
                   ![t].dev = FirstDevice]
    /\ pc' = [pc EXCEPT ![t] = IF FirstDevice = None THEN "copy" ELSE "probe_mem"]
    /\ UNCHANGED <<now, issued, queue, statusMap, active_jobs, gpus, returned>>

\* get_queue_stats, lines 184-185: the first get_all_gpus returns its copies,
\* which are counted, and the call enters the update_all_gpus of the second.
QsFirst(t) ==
    /\ pc[t] = "copy"
    /\ local[t].dev = None
    /\ local[t].call = "get_queue_stats_first"
    /\ local' = [local EXCEPT
                   ![t].gpu_count = Cardinality(DOMAIN gpus),
                   ![t].available_gpus = 0,
                   ![t].call = "get_queue_stats_second",
                   ![t].dev = FirstDevice]
    /\ pc' = [pc EXCEPT ![t] = IF FirstDevice = None THEN "copy" ELSE "probe_mem"]
    /\ UNCHANGED <<now, issued, queue, statusMap, active_jobs, gpus, returned>>

\* get_queue_stats: the dictionary thread t returns, from what it has
\* read at lines 182 to 185.
QsResult(t) ==
    [queue_length |-> local[t].queue_length,
     active_jobs |-> local[t].active_jobs,
     gpu_count |-> local[t].gpu_count,
     available_gpus |-> local[t].available_gpus]

\* get_queue_stats, lines 185-186: the second get_all_gpus has returned its
\* copies; the dictionary ret is returned.
QsSecond(t, ret) ==
    /\ pc[t] = "copy"
    /\ local[t].dev = None
    /\ local[t].call = "get_queue_stats_second"
    /\ ret = QsResult(t)
    /\ local' = [local EXCEPT ![t] = IdleLocal]
    /\ pc' = [pc EXCEPT ![t] = "idle"]
    /\ UNCHANGED <<now, issued, queue, statusMap, active_jobs, gpus, returned>>

\* ------------------------------------------------------------ specifications
GpuReturns == DOMAIN gpus \cup {None}
JobReturns == JobIds \cup {None}
Probes == [DOMAIN gpus -> ProbeOutcomes]
\* The ids a caller passes to get_gpu_info: every index a device can have.
GpuIds == 0..(MaxGPUs - 1)
\* What one nvmlDeviceGetMemoryInfo and one nvmlDeviceGetUtilizationRates
\* call can give: a value of Readings, or (None) an exception.
MemoryOutcomes == {r.memory_free : r \in Readings} \cup {None}
UtilizationOutcomes == {r.utilization : r \in Readings} \cup {None}
\* The dictionaries get_queue_stats can return.
QueueStats ==
    [queue_length : 0..MaxJobs, active_jobs : 0..MaxJobs,
     gpu_count : 0..MaxGPUs, available_gpus : 0..MaxGPUs]

\* Spec: one JobOrchestrator, its four mutating calls in any order on any
\* tracked job, among the calls that only refresh the GPU registry
\* (get_queue_stats, and get_gpu_info and get_all_gpus of its GPUManager).
\* These calls only write the queue and read the clock only to stamp the
\* envelope, so jobs are created with the default priority and the clock
\* stands still; SpecQueue and SpecConc vary both.
Next ==
    \/ \E ret \in JobIds :
          CreateJob(DefaultPriority, ret) /\ UNCHANGED <<callArgs, chunkVars, stageVars>>
    \/ \E j \in DOMAIN active_jobs, o \in Probes, ret \in GpuReturns :
          AssignJobToGPU(j, o, ret) /\ UNCHANGED <<callArgs, chunkVars, stageVars>>
    \/ \E j \in DOMAIN active_jobs, r \in Results :
          CompleteJob(j, r) /\ UNCHANGED <<callArgs, chunkVars, stageVars>>
    \/ \E j \in DOMAIN active_jobs :
          FailJob(j) /\ UNCHANGED <<callArgs, chunkVars, stageVars>>
    \/ \E g \in GpuIds, o \in ProbeOutcomes :
          GetGPUInfo(g, o) /\ UNCHANGED <<callArgs, chunkVars, stageVars>>
    \/ \E o \in Probes :
          GetAllGPUs(o) /\ UNCHANGED <<callArgs, chunkVars, stageVars>>
    \/ \E first \in Probes, second \in Probes :
          GetQueueStats(first, second) /\ UNCHANGED <<callArgs, chunkVars, stageVars>>

Spec == Init /\ [][Next]_vars

\* SpecQueue: one JobQueue, enqueue_job and dequeue_job called one at a time
\* while the wall clock advances.
InitQueue == Init /\ DOMAIN gpus = {}

NextQueue ==
    \/ \E d \in ClockSteps :
          Tick(d) /\ UNCHANGED <<callArgs, chunkVars, stageVars>>
    \/ \E p \in Priorities, ret \in JobIds :
          EnqueueJob(p, ret) /\ UNCHANGED <<callArgs, chunkVars, stageVars>>
    \/ \E ret \in JobReturns :
          DequeueJob(ret) /\ UNCHANGED <<callArgs, chunkVars, stageVars>>

SpecQueue == InitQueue /\ [][NextQueue]_vars

\* SpecConc: NumThreads threads call create_job, dequeue_job,
\* assign_job_to_gpu (with any job id enqueue_job has issued, tracked yet or
\* not) and the refreshing calls, interleaved at their Redis, active_jobs
\* and registry accesses.
NextConc ==
    \/ \E t \in Threads, p \in CallerPriorities, ret \in JobIds :
          CjEnqueue(t, p, ret) /\ UNCHANGED <<callArgs, chunkVars, stageVars>>
    \/ \E t \in Threads :
          CjTrack(t) /\ UNCHANGED <<callArgs, chunkVars, stageVars>>
    \/ \E t \in Threads :
          DqRead(t) /\ UNCHANGED <<callArgs, chunkVars, stageVars>>
    \/ \E t \in Threads :
          DqRemove(t) /\ UNCHANGED <<callArgs, chunkVars, stageVars>>
    \/ \E t \in Threads, j \in issued :
          AsGet(t, j) /\ UNCHANGED <<callArgs, chunkVars, stageVars>>
    \/ \E t \in Threads, m \in MemoryOutcomes :
          ProbeMem(t, m) /\ UNCHANGED <<callArgs, chunkVars, stageVars>>
    \/ \E t \in Threads, u \in UtilizationOutcomes :
          ProbeUtil(t, u) /\ UNCHANGED <<callArgs, chunkVars, stageVars>>
    \/ \E t \in Threads :
          SelAvailable(t) /\ UNCHANGED <<callArgs, chunkVars, stageVars>>
    \/ \E t \in Threads :
          SelMemory(t) /\ UNCHANGED <<callArgs, chunkVars, stageVars>>
    \/ \E t \in Threads :
          SelUtilization(t) /\ UNCHANGED <<callArgs, chunkVars, stageVars>>
    \/ \E t \in Threads :
          AsNone(t) /\ UNCHANGED <<callArgs, chunkVars, stageVars>>
    \/ \E t \in Threads :
          AsMark(t) /\ UNCHANGED <<callArgs, chunkVars, stageVars>>
    \/ \E t \in Threads :
          AsUpdate(t) /\ UNCHANGED <<callArgs, chunkVars, stageVars>>
    \/ \E t \in Threads :
          AsEntryStatus(t) /\ UNCHANGED <<callArgs, chunkVars, stageVars>>
    \/ \E t \in Threads :
          AsStatus(t) /\ UNCHANGED <<callArgs, chunkVars, stageVars>>
    \/ \E t \in Threads, g \in GpuIds :
          GiCall(t, g) /\ UNCHANGED <<callArgs, chunkVars, stageVars>>
    \/ \E t \in Threads :
          GaCall(t) /\ UNCHANGED <<callArgs, chunkVars, stageVars>>
    \/ \E t \in Threads :
          GpuCopy(t) /\ UNCHANGED <<callArgs, chunkVars, stageVars>>
    \/ \E t \in Threads :
          GpuReturn(t) /\ UNCHANGED <<callArgs, chunkVars, stageVars>>
    \/ \E t \in Threads :
          QsZcard(t) /\ UNCHANGED <<callArgs, chunkVars, stageVars>>
    \/ \E t \in Threads :
          QsLen(t) /\ UNCHANGED <<callArgs, chunkVars, stageVars>>
    \/ \E t \in Threads :
          QsFirst(t) /\ UNCHANGED <<callArgs, chunkVars, stageVars>>
    \/ \E t \in Threads, ret \in QueueStats :
          QsSecond(t, ret) /\ UNCHANGED <<callArgs, chunkVars, stageVars>>

SpecConc == Init /\ [][NextConc]_vars

\* ===================================================================== claims
Holding(entry) == entry.status \in {"assigned", "processing"}
Terminal(status) == status \in {"completed", "failed", "cancelled"}

\* pending -> assigned -> processing -> (completed | failed | cancelled)
Rank(status) ==
    CASE status = "pending" -> 0
      [] status = "assigned" -> 1
      [] status = "processing" -> 2
      [] OTHER -> 3

\* A status may follow another: the same status, or a later one from a
\* status that is not terminal.
Forward(old, new) == old = new \/ (~Terminal(old) /\ Rank(old) < Rank(new))

\* C1: no GPU is held by two jobs at once: no two distinct jobs in status
\* assigned or processing have the same gpu_id.
C1_OneJobPerGPU ==
    \A j1, j2 \in DOMAIN active_jobs :
        (j1 # j2 /\ Holding(active_jobs[j1]) /\ Holding(active_jobs[j2]))
            => Get(active_jobs[j1], "gpu_id") # Get(active_jobs[j2], "gpu_id")

\* C2: the status of a job recorded in active_jobs only moves forward along
\* pending -> assigned -> processing -> terminal, and a terminal status
\* never changes (every call writes the same status to the status map).
C2_StatusMonotonic ==
    [][ \A j \in DOMAIN active_jobs :
            Forward(active_jobs[j].status, active_jobs'[j].status) ]_vars

\* C3: every assigned or processing job has a gpu_id, and every completed,
\* failed or cancelled job has none.
C3_GpuIdMatchesStatus ==
    \A j \in DOMAIN active_jobs :
        /\ Holding(active_jobs[j]) => Get(active_jobs[j], "gpu_id") # None
        /\ Terminal(active_jobs[j].status) => Get(active_jobs[j], "gpu_id") = None

\* This step is a dequeue_job call that returns the envelope e.
DequeuedHere(e) == e \in queue /\ DequeueJob(e.id)

\* C4: priority dominates the queue order: dequeue returns a job whose
\* priority is the maximum among the queued jobs, whatever the timestamps.
C4_PriorityDominates ==
    [][ \A e \in queue : DequeuedHere(e) =>
            \A f \in queue : f.priority <= e.priority ]_vars

\* C5: FIFO within a priority: a job is dequeued before every job enqueued
\* later with the same or a lower priority, so nothing is dequeued while an
\* earlier job of the same or a higher priority is still queued.
C5_FifoWithinPriority ==
    [][ \A e \in queue : DequeuedHere(e) =>
            \A f \in queue : ~(f.ts < e.ts /\ f.priority >= e.priority) ]_vars

\* C6: dequeue is atomic with respect to concurrent callers: each enqueued
\* job is returned by at most one dequeue_job call.
C6_DequeuedAtMostOnce ==
    \A j \in JobIds : returned[j] <= 1

\* A thread is inside assign_job_to_gpu and has obtained a GPU.
HasGpu(t) == pc[t] \in {"as_mark", "as_update", "as_entry_status", "as_status"}

\* C7: two threads that run assign_job_to_gpu concurrently for two
\* different jobs never both obtain the same gpu_id.
C7_DistinctGpusObtained ==
    \A t1, t2 \in Threads :
        (t1 # t2 /\ HasGpu(t1) /\ HasGpu(t2) /\ local[t1].job_id # local[t2].job_id)
            => local[t1].gpu_id # local[t2].gpu_id

\* This step is a complete_job or fail_job call on job j that leaves it in
\* status done.
FinishCall(j, done) ==
    \/ done = "completed" /\ \E r \in Results : CompleteJob(j, r)
    \/ done = "failed" /\ FailJob(j)

\* C8: complete_job (fail_job) on a tracked job assigned to GPU g sets the
\* status completed (failed) in active_jobs and in the status map and sets
\* g's available flag.
C8_FinishReleasesGpu ==
    [][ \A j \in DOMAIN active_jobs, done \in {"completed", "failed"} :
          (FinishCall(j, done) /\ active_jobs[j].status = "assigned")
          => /\ active_jobs'[j].status = done
             /\ j \in DOMAIN statusMap'
             /\ statusMap'[j].status = done
             /\ gpus'[active_jobs[j].gpu_id].available ]_vars

\* C9: a successful assign_job_to_gpu on a tracked pending job returns a GPU
\* that was available before and is busy after, and records status assigned
\* with that gpu_id in active_jobs and in the status map.
C9_AssignMarksAndRecords ==
    [][ \A j \in DOMAIN active_jobs, o \in Probes, g \in DOMAIN gpus :
          (active_jobs[j].status = "pending" /\ AssignJobToGPU(j, o, g))
          => /\ gpus[g].available
             /\ ~gpus'[g].available
             /\ active_jobs'[j].status = "assigned"
             /\ Get(active_jobs'[j], "gpu_id") = g
             /\ j \in DOMAIN statusMap'
             /\ statusMap'[j].status = "assigned"
             /\ Get(statusMap'[j], "gpu_id") = g ]_vars

\* C9 witness: an assign call has succeeded on a pending job: the job is
\* assigned, the status map agrees and the GPU it names is marked busy.
C9_Witness ==
    \E j \in DOMAIN active_jobs :
        /\ active_jobs[j].status = "assigned"
        /\ j \in DOMAIN statusMap
        /\ statusMap[j].status = "assigned"
        /\ Get(statusMap[j], "gpu_id") = active_jobs[j].gpu_id
        /\ ~gpus[active_jobs[j].gpu_id].available

\* A device satisfies the allocation policy in this step: its flag before
\* the call is set, and its refreshed reading has at least the 2 GiB asked
\* for free and a utilization below 90%.
SatisfiesPolicy(g) ==
    /\ gpus[g].available
    /\ gpus'[g].memory_free >= MinMemoryGB * KiBPerGiB
    /\ gpus'[g].utilization < MaxUtilization

\* C10: when no GPU satisfies the allocation policy (also when the registry
\* is empty) assign_job_to_gpu returns None, and a call that returns None
\* changes no job entry, no available flag and no status-map entry.
C10_NoGpuNoChange ==
    [][ \A o \in Probes, j \in DOMAIN active_jobs :
          LET ret == AssignReturn(o) IN
          AssignJobToGPU(j, o, ret) =>
             /\ (\A g \in DOMAIN gpus : ~SatisfiesPolicy(g)) => ret = None
             /\ ret = None =>
                   /\ active_jobs' = active_jobs
                   /\ statusMap' = statusMap
                   /\ DOMAIN gpus' = DOMAIN gpus
                   /\ \A g \in DOMAIN gpus : gpus'[g].available = gpus[g].available ]_vars

\* ------------------------------------------------------------ dispatcher
\* One pass of a dispatcher over the two calls the code offers it:
\* job = dequeue_job(); if job: assign_job_to_gpu(job["id"]).  JobQueue has no
\* call that puts a dequeued member back (enqueue_job draws a new uuid and a
\* new score), so nothing follows an assign_job_to_gpu that returns None.
\* job_id is the id dequeue_job returns (None on an empty queue), ret what
\* assign_job_to_gpu returns.
DispatcherTick(job_id, outcomes, ret) ==
    IF ZRevRangeTop(queue) = {}
    THEN /\ job_id = None
         /\ ret = None
         /\ UNCHANGED vars
    ELSE /\ job_id \in {job.id : job \in ZRevRangeTop(queue)}
         /\ queue' = ZRem(queue, job_id)
         /\ returned' = [returned EXCEPT ![job_id] = @ + 1]
         /\ ret = AssignReturn(outcomes)
         /\ LET probed == update_all_gpus(gpus, outcomes) IN
            IF ret = None
            THEN /\ gpus' = probed
                 /\ UNCHANGED <<statusMap, active_jobs>>
            ELSE /\ gpus' = mark_gpu_busy(probed, ret)
                 /\ active_jobs' = AssignEntry(active_jobs, job_id, ret)
                 /\ statusMap' = update_job_status(statusMap, job_id, "assigned",
                                                   [gpu_id |-> ret])
         /\ UNCHANGED <<now, issued, pc, local>>

\* SpecDispatch: jobs are created, a single dispatcher makes its passes,
\* jobs are completed or failed, which releases their GPUs, and the registry
\* is refreshed by the reading calls.
NextDispatch ==
    \/ \E ret \in JobIds :
          CreateJob(DefaultPriority, ret) /\ UNCHANGED <<callArgs, chunkVars, stageVars>>
    \/ \E j \in JobReturns, o \in Probes, ret \in GpuReturns :
          DispatcherTick(j, o, ret) /\ UNCHANGED <<callArgs, chunkVars, stageVars>>
    \/ \E j \in DOMAIN active_jobs, r \in Results :
          CompleteJob(j, r) /\ UNCHANGED <<callArgs, chunkVars, stageVars>>
    \/ \E j \in DOMAIN active_jobs :
          FailJob(j) /\ UNCHANGED <<callArgs, chunkVars, stageVars>>
    \/ \E g \in GpuIds, o \in ProbeOutcomes :
          GetGPUInfo(g, o) /\ UNCHANGED <<callArgs, chunkVars, stageVars>>
    \/ \E o \in Probes :
          GetAllGPUs(o) /\ UNCHANGED <<callArgs, chunkVars, stageVars>>
    \/ \E first \in Probes, second \in Probes :
          GetQueueStats(first, second) /\ UNCHANGED <<callArgs, chunkVars, stageVars>>

SpecDispatch == Init /\ [][NextDispatch]_vars

\* C11: a job dequeued while no GPU is free is not lost: after a dispatcher
\* pass whose assign_job_to_gpu returned None the job is queued at its
\* original score and the queue is as long as before; and a pass made while
\* the job is first in the queue and a GPU passes the allocation policy
\* assigns the job to a GPU.
C11_DequeuedJobNotLost ==
    [][ \A e \in queue, o \in Probes :
          LET ret == AssignReturn(o) IN
          DispatcherTick(e.id, o, ret) =>
             /\ ret = None => (e \in queue' /\ Cardinality(queue') = Cardinality(queue))
             /\ ret # None =>
                   /\ e.id \in DOMAIN active_jobs => active_jobs'[e.id].status = "assigned"
                   /\ ~gpus'[ret].available ]_vars

\* ------------------------------------------------------- idempotency key
\* create_job called with job_metadata = {"idempotency_key": key} (key = None:
\* job_metadata without that key).  create_job copies job_metadata into the
\* envelope's data["metadata"] and never reads it.
CreateJobWithKey(key, priority, ret) ==
    /\ CreateJob(priority, ret)
    /\ job_metadata' = (ret :> key) @@ job_metadata
    /\ UNCHANGED <<cancel_requested, members, chunkVars, stageVars>>

IdempotencyKeys == 1..MaxKeys

\* SpecIdem: create_job is called with and without idempotency keys while
\* jobs are dequeued and the clock advances.
NextIdem ==
    \/ \E d \in ClockSteps : Tick(d) /\ UNCHANGED <<callArgs, chunkVars, stageVars>>
    \/ \E k \in IdempotencyKeys \cup {None}, ret \in JobIds :
          CreateJobWithKey(k, DefaultPriority, ret)
    \/ \E ret \in JobReturns : DequeueJob(ret) /\ UNCHANGED <<callArgs, chunkVars, stageVars>>

SpecIdem == Init /\ [][NextIdem]_vars

\* C12: create_job is idempotent on the idempotency key: a call whose
\* job_metadata carries a key that an earlier call carried returns the job id
\* of that earlier call and leaves the queue and active_jobs as they were.
C12_CreateJobIdempotent ==
    [][ \A k \in IdempotencyKeys, ret \in JobIds :
          (CreateJobWithKey(k, DefaultPriority, ret)
             /\ \E j \in DOMAIN job_metadata : job_metadata[j] = k)
          => /\ ret \in DOMAIN job_metadata
             /\ job_metadata[ret] = k
             /\ Cardinality(queue') = Cardinality(queue)
             /\ active_jobs' = active_jobs ]_vars

\* ------------------------------------------------------------ cancellation
\* A caller cancels job job_id.  JobOrchestrator defines create_job,
\* assign_job_to_gpu, complete_job, fail_job, get_job_status and
\* get_queue_stats and nothing else, and no code of orchestrator.py,
\* job_queue.py or gpu_manager.py writes the status "cancelled"
\* (ProcessingStatus.CANCELLED is declared in models/enums.py and not used):
\* orchestrator.cancel_job(job_id) raises AttributeError and leaves the
\* queue, the status map, active_jobs and the registry as they were.
CancelJob(job_id) ==
    /\ cancel_requested' = cancel_requested \cup {job_id}
    /\ UNCHANGED <<now, issued, queue, statusMap, active_jobs, gpus, pc, local,
                   returned, job_metadata, members, chunkVars, stageVars>>

\* SpecCancel: the orchestrator's calls, the registry's reading calls among
\* them, with cancellations asked for.
NextCancel ==
    \/ \E ret \in JobIds :
          CreateJob(DefaultPriority, ret) /\ UNCHANGED <<callArgs, chunkVars, stageVars>>
    \/ \E j \in DOMAIN active_jobs, o \in Probes, ret \in GpuReturns :
          AssignJobToGPU(j, o, ret) /\ UNCHANGED <<callArgs, chunkVars, stageVars>>
    \/ \E j \in DOMAIN active_jobs : CancelJob(j)
    \/ \E j \in DOMAIN active_jobs, r \in Results :
          CompleteJob(j, r) /\ UNCHANGED <<callArgs, chunkVars, stageVars>>
    \/ \E j \in DOMAIN active_jobs :
          FailJob(j) /\ UNCHANGED <<callArgs, chunkVars, stageVars>>
    \/ \E g \in GpuIds, o \in ProbeOutcomes :
          GetGPUInfo(g, o) /\ UNCHANGED <<callArgs, chunkVars, stageVars>>
    \/ \E o \in Probes :
          GetAllGPUs(o) /\ UNCHANGED <<callArgs, chunkVars, stageVars>>
    \/ \E first \in Probes, second \in Probes :
          GetQueueStats(first, second) /\ UNCHANGED <<callArgs, chunkVars, stageVars>>

SpecCancel == Init /\ [][NextCancel]_vars

\* C13: cancelling a job brings it to the terminal status cancelled.  Its
\* first case: a cancel call on a pending job removes the job from the queue
\* and sets its status to cancelled.  (The other case, an assigned or
\* processing job eventually cancelled or failed with its GPU released,
\* speaks of the same call.)
C13_CancelReachesCancelled ==
    [][ \A j \in DOMAIN active_jobs :
          (CancelJob(j) /\ active_jobs[j].status = "pending")
             => /\ active_jobs'[j].status = "cancelled"
                /\ \A e \in queue' : e.id # j ]_vars

\* ------------------------------------------------------------- create_job
\* SpecCreate: create_job is called with the priorities the API uses, among
\* assignments, failures, dequeues and refreshes of the registry.
NextCreate ==
    \/ \E p \in CallerPriorities, ret \in JobIds :
          CreateJob(p, ret) /\ UNCHANGED <<callArgs, chunkVars, stageVars>>
    \/ \E j \in DOMAIN active_jobs, o \in Probes, ret \in GpuReturns :
          AssignJobToGPU(j, o, ret) /\ UNCHANGED <<callArgs, chunkVars, stageVars>>
    \/ \E j \in DOMAIN active_jobs :
          FailJob(j) /\ UNCHANGED <<callArgs, chunkVars, stageVars>>
    \/ \E ret \in JobReturns :
          DequeueJob(ret) /\ UNCHANGED <<callArgs, chunkVars, stageVars>>
    \/ \E g \in GpuIds, o \in ProbeOutcomes :
          GetGPUInfo(g, o) /\ UNCHANGED <<callArgs, chunkVars, stageVars>>
    \/ \E o \in Probes :
          GetAllGPUs(o) /\ UNCHANGED <<callArgs, chunkVars, stageVars>>
    \/ \E first \in Probes, second \in Probes :
          GetQueueStats(first, second) /\ UNCHANGED <<callArgs, chunkVars, stageVars>>

SpecCreate == Init /\ [][NextCreate]_vars

\* C14: each create_job call adds exactly one entry to the queue, the
\* envelope with the returned id, and exactly one entry to active_jobs, under
\* the returned id, with status pending and no gpu_id; it changes no other
\* job entry, no GPU and no status-map entry.
C14_CreateJobAddsOne ==
    [][ \A p \in CallerPriorities, ret \in JobIds :
          CreateJob(p, ret) =>
             /\ \E e \in queue' :
                   /\ e.id = ret /\ e.priority = p
                   /\ e \notin queue
                   /\ queue' = queue \cup {e}
             /\ ret \notin DOMAIN active_jobs
             /\ DOMAIN active_jobs' = DOMAIN active_jobs \cup {ret}
             /\ active_jobs'[ret].job_id = ret
             /\ active_jobs'[ret].status = "pending"
             /\ "gpu_id" \notin DOMAIN active_jobs'[ret]
             /\ \A j \in DOMAIN active_jobs : active_jobs'[j] = active_jobs[j]
             /\ gpus' = gpus
             /\ statusMap' = statusMap ]_vars

\* C14 witness: a job just created (pending, no gpu_id, its envelope queued,
\* no status written) next to a job that holds a GPU marked busy.
C14_Witness ==
    \E j, k \in DOMAIN active_jobs :
        /\ active_jobs[j].status = "pending"
        /\ "gpu_id" \notin DOMAIN active_jobs[j]
        /\ j \notin DOMAIN statusMap
        /\ \E e \in queue : e.id = j
        /\ k # j
        /\ active_jobs[k].status = "assigned"
        /\ ~gpus[active_jobs[k].gpu_id].available

\* ----------------------------------------------------------- get_job_status
\* The Optional[Dict] both get_job_status return is modelled as a set of at
\* most one dict, None being the empty set.
\* JobQueue.get_job_status: the value of the Redis key job_status:<id>, None
\* when the key is absent.  The keys are written with SETEX ... 86400; the
\* clock of this model stays far below 24 h, so no key expires.
queue_get_job_status(sm, job_id) == IF job_id \in DOMAIN sm THEN {sm[job_id]} ELSE {}

\* JobOrchestrator.get_job_status: a copy of the active_jobs entry when there
\* is one, else what the JobQueue has.
get_job_status(A, sm, job_id) ==
    IF job_id \in DOMAIN A THEN {A[job_id]} ELSE queue_get_job_status(sm, job_id)

\* The coordinator process restarts: JobOrchestrator.__init__ builds a new
\* GPUManager (devices rediscovered, every flag True, each probed once), a
\* new JobQueue client on the same Redis, and an empty active_jobs.
Restart(outcomes) ==
    /\ active_jobs' = [j \in {} |-> EmptyDict]
    /\ gpus' = update_all_gpus([g \in DOMAIN gpus |-> NewGPU], outcomes)
    /\ pc' = [t \in Threads |-> "idle"]
    /\ local' = [t \in Threads |-> IdleLocal]
    /\ UNCHANGED <<now, issued, queue, statusMap, returned>>

\* SpecRestart: the orchestrator's calls, the registry's reading calls among
\* them, with restarts of the coordinator.
NextRestart ==
    \/ \E ret \in JobIds :
          CreateJob(DefaultPriority, ret) /\ UNCHANGED <<callArgs, chunkVars, stageVars>>
    \/ \E j \in issued, o \in Probes, ret \in GpuReturns :
          AssignJobToGPU(j, o, ret) /\ UNCHANGED <<callArgs, chunkVars, stageVars>>
    \/ \E j \in issued, r \in Results :
          CompleteJob(j, r) /\ UNCHANGED <<callArgs, chunkVars, stageVars>>
    \/ \E o \in Probes :
          Restart(o) /\ UNCHANGED <<callArgs, chunkVars, stageVars>>
    \/ \E g \in GpuIds, o \in ProbeOutcomes :
          GetGPUInfo(g, o) /\ UNCHANGED <<callArgs, chunkVars, stageVars>>
    \/ \E o \in Probes :
          GetAllGPUs(o) /\ UNCHANGED <<callArgs, chunkVars, stageVars>>
    \/ \E first \in Probes, second \in Probes :
          GetQueueStats(first, second) /\ UNCHANGED <<callArgs, chunkVars, stageVars>>

SpecRestart == Init /\ [][NextRestart]_vars

\* C15: get_job_status returns the active_jobs entry when there is one and
\* else the status-map entry; so for every job create_job has created it
\* returns a status, also after a restart has emptied active_jobs (no status
\* key is older than 24 h here).
C15_StatusSurvivesRestart ==
    \A j \in issued :
        /\ j \in DOMAIN active_jobs =>
              get_job_status(active_jobs, statusMap, j) = {active_jobs[j]}
        /\ (j \notin DOMAIN active_jobs /\ j \in DOMAIN statusMap) =>
              get_job_status(active_jobs, statusMap, j) = {statusMap[j]}
        /\ get_job_status(active_jobs, statusMap, j) # {}

\* ------------------------------------------------------ JSON round trip
\* enqueue_job stores json.dumps(job) and dequeue_job returns
\* json.loads(member).  "id" and "type" are str and "priority" is an int,
\* which JSON gives back as they were; "data" is any value the caller passes.
\* Python values are modelled as [kind, items]: a list, a tuple or a str.
PyValues ==
    { [kind |-> "list", items |-> <<1, 2>>],
      [kind |-> "tuple", items |-> <<1, 2>>],
      [kind |-> "str", items |-> <<>>] }

\* json.dumps: lists and tuples both become JSON arrays.
json_dumps(v) ==
    [kind |-> IF v.kind \in {"list", "tuple"} THEN "array" ELSE "string",
     items |-> v.items]

\* json.loads: a JSON array becomes a list.
json_loads(t) ==
    [kind |-> IF t.kind = "array" THEN "list" ELSE "str", items |-> t.items]

\* enqueue_job(job_type, job_data, priority) with job_data = {"data": data}.
EnqueueJobData(data, priority, ret) ==
    /\ EnqueueJob(priority, ret)
    /\ members' = (ret :> [data |-> json_dumps(data), score |-> Score(priority, now)])
                     @@ members
    /\ UNCHANGED <<job_metadata, cancel_requested, chunkVars, stageVars>>

\* enqueue_job(job_type, {"data": data}, priority) followed immediately by
\* dequeue_job(): new_id is what enqueue_job returns, ret the id of the job
\* dequeue_job returns (whose "data" is json_loads(members[ret].data)).
EnqueueThenDequeue(data, priority, new_id, ret) ==
    /\ new_id \in JobIds \ issued
    /\ issued' = issued \cup {new_id}
    /\ members' = (new_id :> [data |-> json_dumps(data), score |-> Score(priority, now)])
                     @@ members
    /\ LET enqueued == enqueue_job(queue, new_id, priority, now) IN
       /\ ret \in {job.id : job \in ZRevRangeTop(enqueued)}
       /\ queue' = ZRem(enqueued, ret)
    /\ returned' = [returned EXCEPT ![ret] = @ + 1]
    /\ UNCHANGED <<now, statusMap, active_jobs, gpus, pc, local,
                   job_metadata, cancel_requested, chunkVars, stageVars>>

\* SpecRoundTrip: one JobQueue; jobs are enqueued, and enqueued and at once
\* dequeued, while the wall clock advances.
NextRoundTrip ==
    \/ \E d \in ClockSteps : Tick(d) /\ UNCHANGED <<callArgs, chunkVars, stageVars>>
    \/ \E v \in PyValues, p \in Priorities, ret \in JobIds : EnqueueJobData(v, p, ret)
    \/ \E v \in PyValues, p \in Priorities, new_id \in JobIds, ret \in JobIds :
          EnqueueThenDequeue(v, p, new_id, ret)

SpecRoundTrip == InitQueue /\ [][NextRoundTrip]_vars

\* The job dequeue_job returns is the envelope just enqueued: it has the new
\* id (and with it the type and the priority of that member) and its data
\* equal the data passed to enqueue_job.
SameEnvelope(data, new_id, ret) ==
    /\ ret = new_id
    /\ json_loads(members'[ret].data) = data

\* C16: enqueue followed immediately by dequeue is a round trip: dequeue
\* returns the envelope just enqueued and the queue is as before the
\* enqueue, whatever the queue held before.
C16_RoundTrip ==
    [][ \A v \in PyValues, p \in Priorities, new_id \in JobIds, ret \in JobIds :
          EnqueueThenDequeue(v, p, new_id, ret)
             => (SameEnvelope(v, new_id, ret) /\ queue' = queue) ]_vars

\* C16 as amended: the round trip holds when every entry queued before has
\* a lower score than the new envelope and the data is of a type that JSON
\* gives back unchanged.
C16_RoundTripLowerScores ==
    [][ \A v \in PyValues, p \in Priorities, new_id \in JobIds, ret \in JobIds :
          (EnqueueThenDequeue(v, p, new_id, ret)
             /\ (\A e \in queue : e.score < Score(p, now))
             /\ v.kind # "tuple")
          => (SameEnvelope(v, new_id, ret) /\ queue' = queue) ]_vars

\* C16 witness: a job has come back from a round trip (returned once, its
\* list data stored as a JSON array) over a non-empty queue of lower scores.
C16_Witness ==
    \E j \in DOMAIN members :
        /\ returned[j] = 1
        /\ members[j].data.kind = "array"
        /\ queue # {}
        /\ \A e \in queue : e.score < members[j].score /\ returned[e.id] = 0

\* ------------------------------------------------ the GPUManager on its own
\* Readings on both sides of the two thresholds of get_available_gpu: free
\* memory just below and at 2 GiB, utilization 89, 90 and 91 percent.
UtilizationReadings == {MaxUtilization - 1, MaxUtilization, MaxUtilization + 1}
MemoryReadings == {MinMemoryGB * KiBPerGiB - 1, MinMemoryGB * KiBPerGiB}
GpuReadings == [memory_free : MemoryReadings, utilization : UtilizationReadings]
GpuProbes == [DOMAIN gpus -> OutcomesOf(GpuReadings)]

\* GPUManager.__init__ alone: 0..MaxSlots devices, each probed once.
InitGpu ==
    /\ now = 0
    /\ issued = {}
    /\ queue = {}
    /\ statusMap = [j \in {} |-> EmptyDict]
    /\ active_jobs = [j \in {} |-> EmptyDict]
    /\ \E n \in 0..MaxSlots :
         \E outcomes \in [0..(n - 1) -> OutcomesOf(GpuReadings)] :
            gpus = update_all_gpus([g \in 0..(n - 1) |-> NewGPU], outcomes)
    /\ pc = [t \in Threads |-> "idle"]
    /\ local = [t \in Threads |-> IdleLocal]
    /\ returned = [j \in JobIds |-> 0]
    /\ job_metadata = [j \in {} |-> None]
    /\ cancel_requested = {}
    /\ members = [j \in {} |-> EmptyDict]
    /\ video = NoVideo
    /\ chunker = IdleChunker
    /\ chunks = <<>>
    /\ upload = NoUpload
    /\ tracker = NoTracker
    /\ clip = NoClip

\* GPUManager.get_available_gpu(min_memory_gb); ret is the id returned, or
\* None.
GetAvailableGPU(min_memory_gb, outcomes, ret) ==
    /\ gpus' = update_all_gpus(gpus, outcomes)
    /\ ret = get_available_gpu(gpus', min_memory_gb)
    /\ UNCHANGED <<now, issued, queue, statusMap, active_jobs, pc, local, returned>>

\* GPUManager.mark_gpu_busy(gpu_id)
MarkGpuBusy(gpu_id) ==
    /\ gpus' = mark_gpu_busy(gpus, gpu_id)
    /\ UNCHANGED <<now, issued, queue, statusMap, active_jobs, pc, local, returned>>

\* GPUManager.mark_gpu_available(gpu_id)
MarkGpuAvailable(gpu_id) ==
    /\ gpus' = mark_gpu_available(gpus, gpu_id)
    /\ UNCHANGED <<now, issued, queue, statusMap, active_jobs, pc, local, returned>>

NextGpu ==
    \/ \E o \in GpuProbes, ret \in GpuReturns :
          GetAvailableGPU(MinMemoryGB, o, ret) /\ UNCHANGED <<callArgs, chunkVars, stageVars>>
    \/ \E g \in DOMAIN gpus :
          MarkGpuBusy(g) /\ UNCHANGED <<callArgs, chunkVars, stageVars>>
    \/ \E g \in DOMAIN gpus :
          MarkGpuAvailable(g) /\ UNCHANGED <<callArgs, chunkVars, stageVars>>
    \/ \E g \in 0..(MaxSlots - 1), o \in OutcomesOf(GpuReadings) :
          GetGPUInfo(g, o) /\ UNCHANGED <<callArgs, chunkVars, stageVars>>
    \/ \E o \in GpuProbes :
          GetAllGPUs(o) /\ UNCHANGED <<callArgs, chunkVars, stageVars>>

SpecGpu == InitGpu /\ [][NextGpu]_vars

\* The slots that satisfy the allocation policy after the refresh of this
\* step: flag set, free memory at least the minimum, utilization below 90%.
PolicySlots(min_memory_gb) ==
    { g \in DOMAIN gpus :
        /\ gpus'[g].available
        /\ gpus'[g].memory_free >= min_memory_gb * KiBPerGiB
        /\ gpus'[g].utilization < MaxUtilization }

\* C17: get_available_gpu returns the first slot, in registry order, with
\* flag set, free memory >= the minimum and utilization < 90%, and None
\* exactly when there is no such slot; so a slot at exactly 90% and a slot
\* whose flag is not set are never returned.
C17_FirstSlotWithinPolicy ==
    [][ \A o \in GpuProbes, ret \in GpuReturns :
          GetAvailableGPU(MinMemoryGB, o, ret) =>
             /\ ret = (IF PolicySlots(MinMemoryGB) = {} THEN None
                       ELSE Min(PolicySlots(MinMemoryGB)))
             /\ ret # None =>
                   /\ gpus'[ret].utilization # MaxUtilization
                   /\ gpus'[ret].available ]_vars

\* C18: when the probe of a slot fails, the slot's available flag becomes
\* false, and get_available_gpu does not return a slot whose latest probe
\* failed.
C18_FailedProbeDegradesSlot ==
    [][ \A o \in GpuProbes, ret \in GpuReturns :
          GetAvailableGPU(MinMemoryGB, o, ret) =>
             \A g \in DOMAIN gpus :
                Raised(o[g]) => (~gpus'[g].available /\ ret # g) ]_vars

\* ---------------------------------------------------------------------
\* VideoChunker (src/backend/ingestion/chunker.py)
\* ---------------------------------------------------------------------

\* cv2 reports fps as a float; the model counts it in units of 1/FpsScale
\* frames per second, so that 0.5 fps and 1.5 fps are representable.
FpsScale == 2

\* Largest fps (in units of 1/FpsScale), largest chunk_duration (seconds),
\* largest CAP_PROP_FRAME_COUNT, and the most frame positions at which
\* cap.read() fails.
MaxFps == 4
MaxDuration == 2
MaxFrames == 5
MaxBadFrames == 1

\* int(fps * self.chunk_duration): truncation of a non-negative product.
frames_per_chunk(fps, chunk_duration) == (fps * chunk_duration) \div FpsScale

\* chunk_index * frames_per_chunk  (the position chunk_file seeks to)
StartFrameOverlapping(chunk_index, fpc) ==
    IF chunk_index = 0 THEN 0 ELSE chunk_index * fpc - 1

start_frame(chunk_index, fpc) == chunk_index * fpc

\* cap.read() at position p: succeeds iff the file has a frame there and the
\* frame decodes.
ReadOk(v, p) == p < v.total_frames /\ p \notin v.unreadable

\* The inner loop: frames written when reading from position start, at most
\* fpc of them, stopping at the first read that fails.
RECURSIVE frames_written(_, _, _)
frames_written(v, start, fpc) ==
    IF fpc = 0 \/ ~ReadOk(v, start) THEN 0
    ELSE 1 + frames_written(v, start + 1, fpc - 1)

\* cap.read() calls the inner loop makes: one per frame written, and one more
\* when it is a failed read that ends the loop.
reads_made(v, start, fpc) ==
    LET w == frames_written(v, start, fpc)
    IN  IF w < fpc THEN w + 1 ELSE w

chunk_metadata(chunk_index, start, written) ==
    [chunk_index |-> chunk_index,
     start_frame |-> start,
     end_frame   |-> start + written - 1,
     frames      |-> written]

\* get_chunk_count(video_path)
get_chunk_count(v, chunk_duration) ==
    IF ~v.opened THEN 0
    ELSE IF v.fps = 0 THEN 0
    ELSE IF frames_per_chunk(v.fps, chunk_duration) = 0 THEN 0
    ELSE (v.total_frames + frames_per_chunk(v.fps, chunk_duration) - 1)
            \div frames_per_chunk(v.fps, chunk_duration)

Videos ==
    { [opened |-> o, fps |-> f, total_frames |-> t, unreadable |-> u] :
        o \in BOOLEAN, f \in 0..MaxFps, t \in 0..MaxFrames,
        u \in { b \in SUBSET (0..(MaxFrames - 1)) :
                  Cardinality(b) <= MaxBadFrames } }

\* A chunker constructed with some chunk duration and given some file; the
\* rest of the backend is in its state after construction, without devices.
InitChunk ==
    /\ now = 0
    /\ issued = {}
    /\ queue = {}
    /\ statusMap = [j \in {} |-> EmptyDict]
    /\ active_jobs = [j \in {} |-> EmptyDict]
    /\ gpus = [g \in {} |-> NewGPU]
    /\ pc = [t \in Threads |-> "idle"]
    /\ local = [t \in Threads |-> IdleLocal]
    /\ returned = [j \in JobIds |-> 0]
    /\ job_metadata = [j \in {} |-> None]
    /\ cancel_requested = {}
    /\ members = [j \in {} |-> EmptyDict]
    /\ video \in { v \in Videos : \A p \in v.unreadable : p < v.total_frames }
    /\ \E d \in 1..MaxDuration :
          chunker = [at |-> "called", chunk_duration |-> d,
                     chunk_index |-> 0, reads |-> 0, released |-> FALSE]
    /\ chunks = <<>>
    /\ upload = NoUpload
    /\ tracker = NoTracker
    /\ clip = NoClip

\* chunk_file up to its loop: the capture is opened and its properties read.
\* A file that does not open ends the generator; fps = 0 raises
\* ZeroDivisionError in the log line's total_frames/fps.
ChunkFileOpen ==
    /\ chunker.at = "called"
    /\ chunker' = [chunker EXCEPT
                     !.at = IF ~video.opened THEN "returned"
                            ELSE IF video.fps = 0 THEN "raised"
                            ELSE "loop"]
    /\ UNCHANGED <<now, issued, queue, statusMap, active_jobs, gpus, pc,
                   local, returned, callArgs, video, chunks, stageVars>>

\* One pass of chunk_file's "while True", lines 72-113: seek, read up to
\* frames_per_chunk frames, then either leave the loop (nothing written) and
\* release the capture, or yield the chunk's metadata: the generator is
\* suspended at the yield, chunk_index not yet incremented.
ChunkFileIteration ==
    /\ chunker.at = "loop"
    /\ LET fpc     == frames_per_chunk(video.fps, chunker.chunk_duration)
           start   == start_frame(chunker.chunk_index, fpc)
           written == frames_written(video, start, fpc)
       IN  /\ chunks' = IF written = 0 THEN chunks
                        ELSE Append(chunks,
                               chunk_metadata(chunker.chunk_index, start, written))
           /\ chunker' = [chunker EXCEPT
                            !.at = IF written = 0 THEN "returned" ELSE "yielded",
                            !.released = (written = 0),
                            !.reads = @ + reads_made(video, start, fpc)]
    /\ UNCHANGED <<now, issued, queue, statusMap, active_jobs, gpus, pc,
                   local, returned, callArgs, video, stageVars>>

\* The consumer asks for the next chunk: the generator resumes after the
\* yield, line 115 (chunk_index += 1), and is at the top of the loop again.
ChunkFileResume ==
    /\ chunker.at = "yielded"
    /\ chunker' = [chunker EXCEPT !.at = "loop", !.chunk_index = @ + 1]
    /\ UNCHANGED <<now, issued, queue, statusMap, active_jobs, gpus, pc,
                   local, returned, callArgs, video, chunks, stageVars>>

\* The consumer closes or drops the generator, before its first next() or
\* while it is suspended at the yield: nothing of chunk_file runs any more,
\* neither line 115 nor the cap.release() of line 117.
ChunkFileClose ==
    /\ chunker.at \in {"called", "yielded"}
    /\ chunker' = [chunker EXCEPT !.at = "closed"]
    /\ UNCHANGED <<now, issued, queue, statusMap, active_jobs, gpus, pc,
                   local, returned, callArgs, video, chunks, stageVars>>

\* SpecChunk: a consumer iterates chunk_file, to its end or until it closes
\* the generator.
NextChunk ==
    \/ ChunkFileOpen
    \/ ChunkFileIteration
    \/ ChunkFileResume
    \/ ChunkFileClose

SpecChunk == InitChunk /\ [][NextChunk]_vars

\* --- claims about VideoChunker ---

\* The frames of the chunks emitted so far, added up.
RECURSIVE SumFrames(_)
SumFrames(cs) == IF cs = <<>> THEN 0 ELSE Head(cs).frames + SumFrames(Tail(cs))

CeilDiv(a, b) == (a + b - 1) \div b

\* floor(fps x D), from the claim's own words
FloorFpsTimesD == (video.fps * chunker.chunk_duration) \div FpsScale

FullyReadable ==
    /\ video.opened
    /\ video.unreadable = {}
    /\ FloorFpsTimesD >= 1

\* C19: for a source whose total_frames frames all read and with
\* frames_per_chunk = floor(fps x D) >= 1, chunk_file emits exactly
\* N = ceil(total_frames / frames_per_chunk) chunks, the value of
\* get_chunk_count, with chunk_index 0..N-1 in order; chunk i covers frames
\* i*frames_per_chunk .. min((i+1)*frames_per_chunk, total_frames) - 1; the
\* chunks are disjoint and contiguous, their frame counts sum to total_frames,
\* and none has zero frames.
C19_ChunksPartitionFrames ==
    (FullyReadable /\ chunker.at = "returned") =>
        LET fpc == FloorFpsTimesD
            N   == CeilDiv(video.total_frames, fpc)
        IN  /\ Len(chunks) = N
            /\ N = get_chunk_count(video, chunker.chunk_duration)
            /\ \A k \in 1..Len(chunks) :
                  /\ chunks[k].chunk_index = k - 1
                  /\ chunks[k].start_frame = (k - 1) * fpc
                  /\ chunks[k].end_frame =
                        Min({k * fpc, video.total_frames}) - 1
                  /\ chunks[k].frames =
                        chunks[k].end_frame - chunks[k].start_frame + 1
                  /\ chunks[k].frames >= 1
                  /\ k > 1 => chunks[k].start_frame = chunks[k-1].end_frame + 1
            /\ SumFrames(chunks) = video.total_frames

\* chunk_file has finished on a fully readable file that needed several
\* chunks, the last of them short.
C19_Witness ==
    /\ FullyReadable
    /\ chunker.at = "returned"
    /\ Len(chunks) >= 3
    /\ chunks[Len(chunks)].frames < FloorFpsTimesD

\* A chunk among those emitted that a failed read cut short in mid-stream:
\* the read after its last frame failed at a position the file has.
CutShort ==
    \E k \in 1..Len(chunks) :
       /\ chunks[k].frames < FloorFpsTimesD
       /\ chunks[k].end_frame + 1 \in video.unreadable

\* C20: when a read fails in the middle of a chunk, chunk_file emits the
\* truncated chunk and ends the sequence: after a chunk cut short by a read
\* failure no chunk is emitted and no read of the source is attempted.
C20_StopsAfterReadFailure ==
    [][ CutShort => (chunks' = chunks /\ chunker'.reads = chunker.reads) ]_vars

\* ---------------------------------------------------------------------
\* POST /ingestion/upload (src/backend/app/api/v1/ingestion.py,
\* src/backend/ingestion/service.py, handlers/upload_handler.py, validator.py)
\* ---------------------------------------------------------------------

\* VideoValidator.SUPPORTED_EXTENSIONS
SUPPORTED_EXTENSIONS == {".mp4", ".avi", ".mov", ".mkv", ".flv", ".wmv", ".m4v"}

\* max_size = 10 * 1024 * 1024 * 1024 bytes; file sizes are counted in MiB
\* (a file of 0 MiB is the empty file).
MaxSizeMiB == 10240

\* VideoValidator.validate_file_upload(file_path) for a file that exists
validate_file_upload(file) ==
    /\ file.suffix \in SUPPORTED_EXTENSIONS
    /\ file.size <= MaxSizeMiB
    /\ file.size # 0

\* Uploaded files: a name, its suffix, a size in MiB.
UploadFiles ==
    { [name |-> n, suffix |-> x, size |-> z] :
        n \in {"a", "b"}, x \in {".mp4", ".txt"},
        z \in {0, 1, MaxSizeMiB, MaxSizeMiB + 1} }

\* The job_metadata upload_video builds for one chunk:
\* {"chunk_index": ..., "original_file": file_path.name, **chunk_metadata}
UploadJobMetadataFirstIndex(file, cm) ==
    [chunk_index   |-> 0,
     original_file |-> file.name,
     start_frame   |-> cm.start_frame,
     end_frame     |-> cm.end_frame,
     frames        |-> cm.frames]

upload_job_metadata(file, cm) ==
    [chunk_index   |-> cm.chunk_index,
     original_file |-> file.name,
     start_frame   |-> cm.start_frame,
     end_frame     |-> cm.end_frame,
     frames        |-> cm.frames]

\* One upload request arrives at a freshly started backend without devices.
\* The uploaded file decodes as some video; its frame count is kept within the
\* number of job ids the model has names for.
InitUpload ==
    /\ now = 0
    /\ issued = {}
    /\ queue = {}
    /\ statusMap = [j \in {} |-> EmptyDict]
    /\ active_jobs = [j \in {} |-> EmptyDict]
    /\ gpus = [g \in {} |-> NewGPU]
    /\ pc = [t \in Threads |-> "idle"]
    /\ local = [t \in Threads |-> IdleLocal]
    /\ returned = [j \in JobIds |-> 0]
    /\ job_metadata = [j \in {} |-> None]
    /\ cancel_requested = {}
    /\ members = [j \in {} |-> EmptyDict]
    /\ video \in { v \in Videos : /\ v.total_frames <= MaxJobs
                                  /\ \A q \in v.unreadable : q < v.total_frames }
    /\ chunker = IdleChunker
    /\ chunks = <<>>
    /\ \E f \in UploadFiles, c \in BOOLEAN :
          upload = [at |-> "called", file |-> f, camera_found |-> c,
                    job_ids |-> <<>>, response |-> None]
    /\ tracker = NoTracker
    /\ clip = NoClip

\* upload_video up to the call of chunk_file: the camera lookup (404 when it
\* is missing), save_upload and validate_file_upload (ValueError -> 400, the
\* saved file deleted).  A valid file goes to IngestionService.chunker, a
\* VideoChunker with the configured chunk duration.
UploadValidate ==
    /\ upload.at = "called"
    /\ IF ~upload.camera_found
       THEN /\ upload' = [upload EXCEPT !.at = "raised", !.response = 404]
            /\ UNCHANGED chunker
       ELSE IF ~validate_file_upload(upload.file)
       THEN /\ upload' = [upload EXCEPT !.at = "raised", !.response = 400]
            /\ UNCHANGED chunker
       ELSE /\ upload' = [upload EXCEPT !.at = "chunking"]
            /\ \E d \in 1..MaxDuration :
                  chunker' = [at |-> "called", chunk_duration |-> d,
                              chunk_index |-> 0, reads |-> 0,
                              released |-> FALSE]
    /\ UNCHANGED <<now, issued, queue, statusMap, active_jobs, gpus, pc,
                   local, returned, callArgs, video, chunks, tracker, clip>>

\* list(self.chunker.chunk_file(...)) has finished: either with the list of
\* chunks, or with the exception chunk_file raised (-> 500).
UploadChunked ==
    /\ upload.at = "chunking"
    /\ chunker.at \in {"returned", "raised"}
    /\ upload' = IF chunker.at = "raised"
                 THEN [upload EXCEPT !.at = "raised", !.response = 500]
                 ELSE [upload EXCEPT !.at = "jobs"]
    /\ UNCHANGED <<now, issued, queue, statusMap, active_jobs, gpus, pc,
                   local, returned, callArgs, chunkVars, tracker, clip>>

\* One pass of "for chunk_path, chunk_metadata in chunks": create_job for the
\* next chunk, job_ids.append(job_id).  ret is the id create_job returns.
UploadCreateJob(ret) ==
    /\ upload.at = "jobs"
    /\ Len(upload.job_ids) < Len(chunks)
    /\ CreateJob(DefaultPriority, ret)
    /\ job_metadata' =
          (ret :> upload_job_metadata(upload.file,
                                      chunks[Len(upload.job_ids) + 1]))
             @@ job_metadata
    /\ upload' = [upload EXCEPT !.job_ids = Append(@, ret)]
    /\ UNCHANGED <<cancel_requested, members, chunkVars, tracker, clip>>

\* The loop is over: 200 with {"chunks": len(chunks), "job_ids": job_ids}.
UploadReturn ==
    /\ upload.at = "jobs"
    /\ Len(upload.job_ids) = Len(chunks)
    /\ upload' = [upload EXCEPT !.at = "returned", !.response = 200]
    /\ UNCHANGED <<now, issued, queue, statusMap, active_jobs, gpus, pc,
                   local, returned, callArgs, chunkVars, tracker, clip>>

NextUpload ==
    \/ UploadValidate
    \/ ChunkFileOpen
    \/ ChunkFileIteration
    \/ ChunkFileResume
    \/ UploadChunked
    \/ \E ret \in JobIds : UploadCreateJob(ret)
    \/ UploadReturn

SpecUpload == InitUpload /\ [][NextUpload]_vars

\* --- claims about the upload ---

\* C21: a successful upload creates exactly one job per emitted chunk, in
\* chunk order: as many job_ids as chunks, all different and all queued, job k
\* carrying chunk_index k and the upload's original_file in its metadata, the
\* chunk_index values being the dense range 0..N-1; when validation of the
\* upload fails, no chunk is written and no job is enqueued.
C21_OneJobPerChunk ==
    /\ upload.at = "returned" =>
          LET N == Len(chunks) IN
          /\ Len(upload.job_ids) = N
          /\ \A k, l \in 1..N : k # l => upload.job_ids[k] # upload.job_ids[l]
          /\ {e.id : e \in queue} = {upload.job_ids[k] : k \in 1..N}
          /\ Cardinality(queue) = N
          /\ \A k \in 1..N :
                /\ job_metadata[upload.job_ids[k]].chunk_index = k - 1
                /\ job_metadata[upload.job_ids[k]].chunk_index
                      = chunks[k].chunk_index
                /\ job_metadata[upload.job_ids[k]].original_file
                      = upload.file.name
          /\ {job_metadata[j].chunk_index : j \in DOMAIN job_metadata}
                = 0..(N - 1)
    /\ (upload.at = "raised" /\ upload.response = 400) =>
          /\ ~validate_file_upload(upload.file)
          /\ chunks = <<>>
          /\ chunker = IdleChunker
          /\ queue = {}
          /\ upload.job_ids = <<>>

\* An upload has succeeded with two chunks and two jobs.
C21_Witness ==
    /\ upload.at = "returned"
    /\ Len(chunks) = MaxJobs
    /\ Len(upload.job_ids) = MaxJobs

\* ---------------------------------------------------------------------
\* ObjectTracker (src/backend/worker/inference/tracker.py)
\* ---------------------------------------------------------------------

\* Most update calls on one tracker, most detections in one frame, and the
\* largest max_disappeared a tracker is constructed with.
MaxUpdates == 4
MaxDetections == 2
MaxDisappeared == 1

\* An IoU is a quotient of two integers; the model keeps numerator and
\* denominator and compares by cross-multiplication.
ZeroIou == [num |-> 0, den |-> 1]
\* iou_threshold: float = 0.3
DefaultIouThreshold == [num |-> 3, den |-> 10]

IouGreaterOrEqual(a, b) == a.num * b.den >= b.num * a.den

\* "iou >= best_iou" in place of "iou > best_iou"
IouGreaterOrTied(a, b) == a.num * b.den >= b.num * a.den

IouGreater(a, b) == a.num * b.den > b.num * a.den

\* _calculate_iou(bbox1, bbox2), boxes being <<x1, y1, x2, y2>>
calculate_iou(bbox1, bbox2) ==
    LET x1_i == Max({bbox1[1], bbox2[1]})
        y1_i == Max({bbox1[2], bbox2[2]})
        x2_i == Min({bbox1[3], bbox2[3]})
        y2_i == Min({bbox1[4], bbox2[4]})
        intersection == (x2_i - x1_i) * (y2_i - y1_i)
        area1 == (bbox1[3] - bbox1[1]) * (bbox1[4] - bbox1[2])
        area2 == (bbox2[3] - bbox2[1]) * (bbox2[4] - bbox2[2])
        union == area1 + area2 - intersection
    IN  IF x2_i <= x1_i \/ y2_i <= y1_i THEN ZeroIou
        ELSE IF union = 0 THEN ZeroIou
        ELSE [num |-> intersection, den |-> union]

\* The inner loop of update (lines 92-102) over self.tracks in dict order,
\* from position k on; best is the (best_match_id, best_iou) so far.
RECURSIVE best_match(_, _, _, _, _, _)
best_match(tracks, k, matched_tracks, bbox, iou_threshold, best) ==
    IF k > Len(tracks) THEN best.id
    ELSE LET iou == calculate_iou(bbox, tracks[k].bbox) IN
         IF /\ tracks[k].track_id \notin matched_tracks
            /\ IouGreater(iou, best.iou)
            /\ IouGreaterOrEqual(iou, iou_threshold)
         THEN best_match(tracks, k + 1, matched_tracks, bbox, iou_threshold,
                         [id |-> tracks[k].track_id, iou |-> iou])
         ELSE best_match(tracks, k + 1, matched_tracks, bbox, iou_threshold, best)

\* self.next_id += 1
NextIdSame(next_id) == next_id

next_track_id(next_id) == next_id + 1

\* The tracks not in matched_tracks (kept with each returned object, for the
\* properties only).
Unmatched(tracks, matched_tracks) ==
    { [track_id |-> tracks[k].track_id, bbox |-> tracks[k].bbox] :
        k \in { n \in 1..Len(tracks) : tracks[n].track_id \notin matched_tracks } }

\* The loop "for detection in detections" (lines 91-137) from detection k on;
\* st holds tracks (in dict order), next_id, matched_tracks, tracked_objects.
RECURSIVE match_detections(_, _, _, _, _)
match_detections(detections, k, frame_number, iou_threshold, st) ==
    IF k > Len(detections) THEN st
    ELSE
      LET bbox == detections[k]
          best_match_id ==
              best_match(st.tracks, 1, st.matched_tracks, bbox, iou_threshold,
                         [id |-> None, iou |-> ZeroIou])
          unmatched == Unmatched(st.tracks, st.matched_tracks)
      IN  IF best_match_id # None
          THEN
            LET n == CHOOSE n \in 1..Len(st.tracks) :
                        st.tracks[n].track_id = best_match_id
            IN  match_detections(detections, k + 1, frame_number, iou_threshold,
                  [st EXCEPT
                     !.tracks[n].bbox = bbox,
                     !.tracks[n].last_seen = frame_number,
                     !.tracks[n].disappeared = 0,
                     !.tracks[n].detection_count = @ + 1,
                     !.matched_tracks = @ \cup {best_match_id},
                     !.tracked_objects = Append(@,
                        [bbox |-> bbox, track_id |-> best_match_id,
                         track_age |-> frame_number - st.tracks[n].first_seen,
                         unmatched |-> unmatched])])
          ELSE
            match_detections(detections, k + 1, frame_number, iou_threshold,
              [st EXCEPT
                 !.tracks = Append(@,
                    [track_id |-> st.next_id, bbox |-> bbox,
                     first_seen |-> frame_number, last_seen |-> frame_number,
                     disappeared |-> 0, detection_count |-> 1]),
                 !.next_id = next_track_id(@),
                 !.tracked_objects = Append(@,
                    [bbox |-> bbox, track_id |-> st.next_id, track_age |-> 0,
                     unmatched |-> unmatched])])

\* Lines 81-84 and 140-144: every track not in matched_tracks gets
\* disappeared += 1 and is deleted when that exceeds max_disappeared.
RECURSIVE age_tracks(_, _, _)
age_tracks(tracks, matched_tracks, max_disappeared) ==
    IF tracks = <<>> THEN <<>>
    ELSE LET t == Head(tracks)
             rest == age_tracks(Tail(tracks), matched_tracks, max_disappeared)
         IN  IF t.track_id \in matched_tracks THEN <<t>> \o rest
             ELSE IF t.disappeared + 1 > max_disappeared THEN rest
             ELSE <<[t EXCEPT !.disappeared = @ + 1]>> \o rest

\* ObjectTracker.update(detections, frame_number): the tracker afterwards,
\* its field result being the list update returns.
update(trk, detections, frame_number) ==
    IF detections = <<>>
    THEN [trk EXCEPT !.tracks = age_tracks(@, {}, trk.max_disappeared),
                     !.result = <<>>]
    ELSE LET st == match_detections(detections, 1, frame_number,
                       trk.iou_threshold,
                       [tracks |-> trk.tracks, next_id |-> trk.next_id,
                        matched_tracks |-> {}, tracked_objects |-> <<>>])
         IN  [trk EXCEPT
                !.tracks = age_tracks(st.tracks, st.matched_tracks,
                                      trk.max_disappeared),
                !.next_id = st.next_id,
                !.result = st.tracked_objects]

\* Boxes of detections: three boxes of width 2 and height 1 in a row, each
\* overlapping its neighbour by half (IoU 1/3) and the outer two disjoint.
Boxes == { <<x, 0, x + 2, 1>> : x \in 0..2 }

\* The detections of one frame: at most MaxDetections boxes, no box twice.
DetectionLists ==
    { d \in UNION { [1..n -> Boxes] : n \in 0..MaxDetections } :
        \A k, l \in DOMAIN d : k # l => d[k] # d[l] }

\* A tracker after construction, in a backend that is otherwise idle.
InitTrack ==
    /\ now = 0
    /\ issued = {}
    /\ queue = {}
    /\ statusMap = [j \in {} |-> EmptyDict]
    /\ active_jobs = [j \in {} |-> EmptyDict]
    /\ gpus = [g \in {} |-> NewGPU]
    /\ pc = [t \in Threads |-> "idle"]
    /\ local = [t \in Threads |-> IdleLocal]
    /\ returned = [j \in JobIds |-> 0]
    /\ job_metadata = [j \in {} |-> None]
    /\ cancel_requested = {}
    /\ members = [j \in {} |-> EmptyDict]
    /\ video = NoVideo
    /\ chunker = IdleChunker
    /\ chunks = <<>>
    /\ upload = NoUpload
    /\ \E m \in 0..MaxDisappeared :
          tracker = [at |-> "ready", max_disappeared |-> m,
                     iou_threshold |-> DefaultIouThreshold,
                     tracks |-> <<>>, next_id |-> 1,
                     frame_number |-> 0, calls |-> 0,
                     result |-> <<>>, seen |-> [id \in {} |-> 0]]
    /\ clip = NoClip

\* tracker.update(detections, frame_number) for the next frame of the chunk.
\* frame_number, calls, result and seen record the calls made since
\* construction or the last reset: the last frame passed, the number of
\* calls, the last list returned, and for every track_id ever returned the
\* last frame in which it was returned.
TrackerUpdate(detections) ==
    /\ tracker.at = "ready"
    /\ tracker.calls < MaxUpdates
    /\ LET frame_number == tracker.frame_number + 1
           after == update(tracker, detections, frame_number)
       IN  tracker' =
             [after EXCEPT
                !.frame_number = frame_number,
                !.calls = @ + 1,
                !.seen = [id \in {after.result[k].track_id :
                                    k \in 1..Len(after.result)} |-> frame_number]
                         @@ @]
    /\ UNCHANGED <<now, issued, queue, statusMap, active_jobs, gpus, pc,
                   local, returned, callArgs, chunkVars, upload, clip>>

\* ObjectTracker.reset()
TrackerReset ==
    /\ tracker.at = "ready"
    /\ tracker' = [tracker EXCEPT !.tracks = <<>>, !.next_id = 1,
                                  !.result = <<>>,
                                  !.seen = [id \in {} |-> 0]]
    /\ UNCHANGED <<now, issued, queue, statusMap, active_jobs, gpus, pc,
                   local, returned, callArgs, chunkVars, upload, clip>>

NextTrack ==
    \/ \E d \in DetectionLists : TrackerUpdate(d)
    \/ TrackerReset

SpecTrack == InitTrack /\ [][NextTrack]_vars

\* --- claims about ObjectTracker ---

TrackIds(trk) == { trk.tracks[k].track_id : k \in 1..Len(trk.tracks) }

TrackOf(trk, id) ==
    trk.tracks[CHOOSE k \in 1..Len(trk.tracks) : trk.tracks[k].track_id = id]

\* The last frame had one detection, and no track other than its own exists.
Alone ==
    /\ Len(tracker.result) = 1
    /\ TrackIds(tracker) \subseteq {tracker.result[1].track_id}

\* C22: a detection present in consecutive frames, with IoU >= iou_threshold
\* between its boxes in consecutive frames and no competing detection or
\* track, keeps its track_id from each frame to the next, and each match
\* resets the track's disappeared counter to 0 and adds one to its
\* detection_count.
C22_TrackIdRetained ==
    [][ \A d \in DetectionLists :
          ( /\ Alone
            /\ Len(d) = 1
            /\ IouGreaterOrEqual(calculate_iou(d[1], tracker.result[1].bbox),
                                 tracker.iou_threshold)
            /\ TrackerUpdate(d) )
          => LET id == tracker.result[1].track_id IN
             /\ tracker'.result[1].track_id = id
             /\ id \in TrackIds(tracker)
             /\ id \in TrackIds(tracker')
             /\ TrackOf(tracker', id).disappeared = 0
             /\ TrackOf(tracker', id).detection_count
                   = TrackOf(tracker, id).detection_count + 1 ]_vars

\* C23: a track is dropped exactly when its run of frames without a match
\* first exceeds max_disappeared: a track last detected (created or matched)
\* in frame f is present after every one of the next max_disappeared frames
\* and absent from the (max_disappeared+1)-th on, while it stays unmatched.
C23_DroppedExactlyAfterMaxDisappeared ==
    \A id \in DOMAIN tracker.seen :
        id \in TrackIds(tracker)
           <=> tracker.frame_number - tracker.seen[id] <= tracker.max_disappeared

\* C25: within one update call a track is matched to at most one detection:
\* the track_ids of the returned list are pairwise distinct.
C25_ReturnedTrackIdsDistinct ==
    \A k, l \in 1..Len(tracker.result) :
        k # l => tracker.result[k].track_id # tracker.result[l].track_id

\* The unmatched tracks that share the maximal IoU (>= iou_threshold) with
\* the box of a returned object.
Ties(o) ==
    { t \in o.unmatched :
        /\ IouGreaterOrEqual(calculate_iou(o.bbox, t.bbox), tracker.iou_threshold)
        /\ \A u \in o.unmatched :
              IouGreaterOrEqual(calculate_iou(o.bbox, t.bbox),
                                calculate_iou(o.bbox, u.bbox)) }

\* C26: a detection that has the same maximal IoU (>= iou_threshold) with
\* several unmatched existing tracks is matched to the one of lowest
\* track_id, whatever tracks were created and removed before.
C26_LowestTrackIdWinsTie ==
    \A k \in 1..Len(tracker.result) :
        Ties(tracker.result[k]) # {} =>
            tracker.result[k].track_id =
                Min({ t.track_id : t \in Ties(tracker.result[k]) })

\* A detection was returned that tied between two tracks, after a track of
\* lower id had been dropped.
C26_Witness ==
    \E k \in 1..Len(tracker.result) :
        /\ Cardinality(Ties(tracker.result[k])) >= 2
        /\ \E id \in DOMAIN tracker.seen :
              /\ id \notin TrackIds(tracker)
              /\ id < tracker.result[k].track_id

\* A step of TrackerUpdate: the only action that counts a call.
UpdateStep == tracker'.calls = tracker.calls + 1

\* C29: track ids are never reused between resets: after every update,
\* next_id is greater than every track_id in tracks and than every track_id
\* returned since construction or the last reset, and a track the update
\* creates has an id that no track had and that was never returned; reset
\* empties tracks and sets next_id to 1.
C29_TrackIdsNeverReused ==
    [][ /\ UpdateStep =>
            /\ \A id \in TrackIds(tracker') \cup DOMAIN tracker'.seen :
                  tracker'.next_id > id
            /\ \A k \in 1..Len(tracker'.result) :
                  tracker'.result[k].track_age = 0 =>
                     tracker'.result[k].track_id
                        \notin (TrackIds(tracker) \cup DOMAIN tracker.seen)
        /\ TrackerReset =>
            /\ tracker'.tracks = <<>>
            /\ tracker'.next_id = 1 ]_vars

\* A new track was created after an earlier track had been dropped.
C29_Witness ==
    /\ \E id \in DOMAIN tracker.seen : id \notin TrackIds(tracker)
    /\ \E k \in 1..Len(tracker.result) :
          /\ tracker.result[k].track_age = 0
          /\ \E id \in DOMAIN tracker.seen :
                id \notin TrackIds(tracker) /\ id < tracker.result[k].track_id

\* ---------------------------------------------------------------------
\* ClipExtractor (src/backend/worker/video/clip_extractor.py)
\* ---------------------------------------------------------------------

\* Largest padding_seconds passed to extract_clip.
MaxPadding == 1

\* padding_frames = int(fps * padding_seconds)
padding_frames(fps, padding_seconds) == (fps * padding_seconds) \div FpsScale

\* clip_start = max(0, start_frame - padding_frames)
clip_start(first_frame, padding) == Max({0, first_frame - padding})

\* clip_end = min(int(cap.get(CAP_PROP_FRAME_COUNT)), end_frame + padding_frames)
clip_end(v, end_frame, padding) == Min({v.total_frames, end_frame + padding})

\* The loop "for frame_num in range(clip_start, clip_end)" after the seek to
\* position pos: the positions of the frames written, in order; the loop
\* stops at the first read that fails.
RECURSIVE frames_copied(_, _, _)
frames_copied(v, pos, end) ==
    IF pos >= end \/ ~ReadOk(v, pos) THEN <<>>
    ELSE <<pos>> \o frames_copied(v, pos + 1, end)

\* extract_clip is called for an event at some frame of some video, as
\* extract_clips_from_events calls it (start_frame = end_frame = the event's
\* frame_number); the rest of the backend is idle.
InitClip ==
    /\ now = 0
    /\ issued = {}
    /\ queue = {}
    /\ statusMap = [j \in {} |-> EmptyDict]
    /\ active_jobs = [j \in {} |-> EmptyDict]
    /\ gpus = [g \in {} |-> NewGPU]
    /\ pc = [t \in Threads |-> "idle"]
    /\ local = [t \in Threads |-> IdleLocal]
    /\ returned = [j \in JobIds |-> 0]
    /\ job_metadata = [j \in {} |-> None]
    /\ cancel_requested = {}
    /\ members = [j \in {} |-> EmptyDict]
    /\ video \in { v \in Videos : \A q \in v.unreadable : q < v.total_frames }
    /\ chunker = IdleChunker
    /\ chunks = <<>>
    /\ upload = NoUpload
    /\ tracker = NoTracker
    /\ \E f \in 0..MaxFrames, p \in 0..MaxPadding :
          clip = [at |-> "called", frame_number |-> f, padding_seconds |-> p,
                  written |-> <<>>, file_exists |-> FALSE, ret |-> "None"]

\* ClipExtractor.extract_clip(video_path, start_frame, end_frame, ...) with
\* start_frame = end_frame = clip.frame_number.  written are the positions of
\* the source frames written to the clip, file_exists whether the clip file
\* is there afterwards, ret the value returned ("path" or "None").
ExtractClip ==
    /\ clip.at = "called"
    /\ IF ~video.opened
       THEN clip' = [clip EXCEPT !.at = "returned"]
       ELSE LET padding == padding_frames(video.fps, clip.padding_seconds)
                start   == clip_start(clip.frame_number, padding)
                end     == clip_end(video, clip.frame_number, padding)
                copied  == frames_copied(video, start, end)
            IN  clip' = [clip EXCEPT
                           !.at = "returned",
                           !.written = copied,
                           !.file_exists = (copied # <<>>),
                           !.ret = IF copied = <<>> THEN "None" ELSE "path"]
    /\ UNCHANGED <<now, issued, queue, statusMap, active_jobs, gpus, pc,
                   local, returned, callArgs, chunkVars, upload, tracker>>

NextClip == ExtractClip

SpecClip == InitClip /\ [][NextClip]_vars

\* --- claims about ClipExtractor ---

\* The positions lo..hi in order (none when hi < lo).
Range(lo, hi) == [k \in 1..(hi - lo + 1) |-> lo + k - 1]

\* C24: extract_clip for an event at frame f with padding
\* P = floor(fps x padding_seconds) writes exactly the source frames with
\* index in [f - P, f + P] clamped to [0, frame_count), in order, and returns
\* the clip path; when that range has no frame the clip file is deleted and
\* None is returned.
C24_ClipCoversPaddedRange ==
    (clip.at = "returned" /\ video.opened /\ video.unreadable = {}) =>
        LET P  == (video.fps * clip.padding_seconds) \div FpsScale
            lo == Max({0, clip.frame_number - P})
            hi == Min({video.total_frames - 1, clip.frame_number + P})
        IN  /\ clip.written = Range(lo, hi)
            /\ hi >= lo => clip.ret = "path" /\ clip.file_exists
            /\ hi < lo  => clip.ret = "None" /\ ~clip.file_exists

\* ---------------------------------------------------------------------
\* JobOrchestrator called with any job id
\* ---------------------------------------------------------------------

\* SpecAnyId: one JobOrchestrator whose assign_job_to_gpu, complete_job and
\* fail_job are called with any job id, whether create_job has returned it
\* (a tracked job) or not, among refreshes of the registry.
NextAnyId ==
    \/ \E ret \in JobIds :
          CreateJob(DefaultPriority, ret) /\ UNCHANGED <<callArgs, chunkVars, stageVars>>
    \/ \E j \in JobIds, o \in Probes, ret \in GpuReturns :
          AssignJobToGPU(j, o, ret) /\ UNCHANGED <<callArgs, chunkVars, stageVars>>
    \/ \E j \in JobIds, r \in Results :
          CompleteJob(j, r) /\ UNCHANGED <<callArgs, chunkVars, stageVars>>
    \/ \E j \in JobIds :
          FailJob(j) /\ UNCHANGED <<callArgs, chunkVars, stageVars>>
    \/ \E g \in GpuIds, o \in ProbeOutcomes :
          GetGPUInfo(g, o) /\ UNCHANGED <<callArgs, chunkVars, stageVars>>
    \/ \E o \in Probes :
          GetAllGPUs(o) /\ UNCHANGED <<callArgs, chunkVars, stageVars>>
    \/ \E first \in Probes, second \in Probes :
          GetQueueStats(first, second) /\ UNCHANGED <<callArgs, chunkVars, stageVars>>

SpecAnyId == Init /\ [][NextAnyId]_vars

\* The tracked jobs in status assigned or processing whose gpu_id is g.
HoldersOf(g) ==
    { j \in DOMAIN active_jobs :
        Holding(active_jobs[j]) /\ Get(active_jobs[j], "gpu_id") = g }

\* C27: no GPU is leaked: in every state reached by create_job,
\* assign_job_to_gpu, complete_job and fail_job (assign_job_to_gpu called
\* twice for a job, or for a job id that is not tracked, included), every GPU
\* whose available flag is false is the gpu_id of exactly one job in status
\* assigned or processing.
C27_NoGpuLeaked ==
    \A g \in DOMAIN gpus :
        ~gpus[g].available => Cardinality(HoldersOf(g)) = 1

\* C28: the status map never contradicts the orchestrator: after every
\* assign_job_to_gpu that obtains a GPU, every complete_job and every
\* fail_job on a tracked job, the status and job_id of the job's status-map
\* entry are the status and job_id of its active_jobs entry, whatever result
\* dictionary is passed (one with a key named status included).
C28_StatusMapAgrees ==
    [][ \A j \in DOMAIN active_jobs :
          ( \/ \E r \in Results : CompleteJob(j, r)
            \/ FailJob(j)
            \/ \E o \in Probes, ret \in DOMAIN gpus : AssignJobToGPU(j, o, ret) )
          => /\ j \in DOMAIN statusMap'
             /\ statusMap'[j].status = active_jobs'[j].status
             /\ statusMap'[j].job_id = active_jobs'[j].job_id ]_vars

\* C30: complete_job or fail_job called with a job id that is not in
\* active_jobs changes no GPU's available flag and adds, removes or modifies
\* no active_jobs entry; the only state it writes is the status-map entry of
\* that job id.
C30_UntrackedFinishWritesStatusOnly ==
    [][ \A j \in JobIds \ DOMAIN active_jobs :
          ( \/ \E r \in Results : CompleteJob(j, r)
            \/ FailJob(j) )
          => /\ gpus' = gpus
             /\ active_jobs' = active_jobs
             /\ queue' = queue
             /\ \A k \in DOMAIN statusMap : k # j =>
                   (k \in DOMAIN statusMap' /\ statusMap'[k] = statusMap[k])
             /\ DOMAIN statusMap' = DOMAIN statusMap \cup {j} ]_vars

\* complete_job or fail_job has been called for a job id that is not
\* tracked, while a tracked job holds a GPU.
C30_Witness ==
    \E j \in DOMAIN statusMap \ DOMAIN active_jobs :
        /\ statusMap[j].status \in {"completed", "failed"}
        /\ \E g \in DOMAIN gpus : ~gpus[g].available /\ HoldersOf(g) # {}

====
